---- MODULE Spec2Model ----
(***************************************************************************)
(* Proof-of-work challenge engine (package pow): the seed codec, the       *)
(* solution checker, the in-memory verified-solution Store and the         *)
(* challenge Manager.                                                      *)
(*                                                                         *)
(* Bytes are the integers 0..255 and a []byte is a sequence of them.  Time *)
(* is an integer count of clock ticks since an arbitrary whole-second      *)
(* instant; TicksPerSecond ticks make one Unix second, so a time.Time has  *)
(* sub-second resolution while Unix() has not.  An error is the chain of   *)
(* messages that %w wrapping builds; the nil error is the empty chain.     *)
(***************************************************************************)
EXTENDS Integers, Sequences, FiniteSets, Bags, TLC

\* ------------------------------------------------------------------ bounds

\* Clock resolution: ticks per Unix second.
TicksPerSecond == 2

\* The clock runs from tick 0 to MaxSeconds whole seconds.
MaxSeconds == 3

MaxNow == MaxSeconds * TicksPerSecond

\* ------------------------------------------------------- program constants

\* md5.Size, the size of the HMAC-MD5 signature (h.Size()).
hSize == 16

\* len(challengeParams.random) as NewChallenge makes it.
randomLen == 8

\* ManagerOpts.withDefaults: Target.
DefaultTarget == 16777215

\* ManagerOpts.withDefaults: ChallengeTimeout, 12 * time.Hour, in seconds.
DefaultChallengeTimeoutSeconds == 43200

\* ------------------------------------------------------------------- bytes

Range(s) == { s[i] : i \in DOMAIN s }

Repeat(b, n) == [i \in 1..n |-> b]

\* s[from:] of Go, from counted from 0.
SliceFrom(s, from) == SubSeq(s, from + 1, Len(s))

\* s[:to] of Go.
SliceTo(s, to) == SubSeq(s, 1, to)

\* s with the byte at (1-based) position i replaced by b.
SetByte(s, i, b) == [s EXCEPT ![i] = b]

\* binary.BigEndian encoding of v in n bytes, two's complement for v < 0.
RECURSIVE BigEndianPut(_, _)
BigEndianPut(v, n) ==
  IF n = 0 THEN <<>> ELSE Append(BigEndianPut(v \div 256, n - 1), v % 256)

RECURSIVE BigEndianUnsigned(_)
BigEndianUnsigned(b) ==
  IF Len(b) = 0 THEN 0
  ELSE BigEndianUnsigned(SliceTo(b, Len(b) - 1)) * 256 + b[Len(b)]

\* binary.BigEndian.Uint32.
Uint32(b) == BigEndianUnsigned(SliceTo(b, 4))

\* binary.Read into an int64: big-endian two's complement.
RECURSIVE BigEndianSigned(_)
BigEndianSigned(b) ==
  IF Len(b) = 1 THEN (IF b[1] >= 128 THEN b[1] - 256 ELSE b[1])
  ELSE BigEndianSigned(SliceTo(b, Len(b) - 1)) * 256 + b[Len(b)]

Int64(b) == BigEndianSigned(SliceTo(b, 8))

\* ----------------------------------------------------------------- errors

NoError == <<>>

ErrInvalidSolution == "invalid solution"

ErrExpiredSeed == "expired seed"

errMalformedSeed == "malformed seed"

ioEOF == "EOF"

ioErrUnexpectedEOF == "unexpected EOF"

\* errors.New(msg): a chain of one message.
NewError(msg) == <<msg>>

\* fmt.Errorf(msg + ": %w", err).
Wrap(msg, err) == <<msg>> \o err

\* errors.Is(err, target): target is somewhere in err's chain.
ErrorsIs(err, target) == target \in Range(err)

\* ------------------------------------------------------------ seed codec

\* A nil []byte, which Go tells apart from an empty one.
NilBytes == <<-1>>

\* The bytes of a []byte that may be nil.
BytesOf(b) == IF b = NilBytes THEN <<>> ELSE b

\* The zero value of challengeParams.
ZeroParams == [target |-> 0, expiresAt |-> 0, random |-> NilBytes]

\* Mutant of MarshalBinary: expiresAt is written as a 32-bit integer.
MarshalBinary_int32(c) ==
  BigEndianPut(c.target, 4) \o BigEndianPut(c.expiresAt, 4) \o BytesOf(c.random)

\* challengeParams.MarshalBinary: target (4 bytes) and expiresAt (8 bytes)
\* big-endian, then the random bytes.  Writing to a bytes.Buffer cannot fail.
MarshalBinary(c) ==
  BigEndianPut(c.target, 4) \o BigEndianPut(c.expiresAt, 8) \o BytesOf(c.random)

\* Mutant of BinaryRead: a short buffer is read as if padded with zeroes.
BinaryRead_padded(b, n) ==
  IF Len(b) >= n THEN [err |-> NoError, data |-> SliceTo(b, n), rest |-> SliceFrom(b, n)]
  ELSE [err |-> NoError, data |-> b \o Repeat(0, n - Len(b)), rest |-> <<>>]

\* binary.Read of n bytes from the buffer b: io.EOF on an empty buffer,
\* io.ErrUnexpectedEOF on a short one (which it drains).
BinaryRead(b, n) ==
  IF Len(b) >= n THEN [err |-> NoError, data |-> SliceTo(b, n), rest |-> SliceFrom(b, n)]
  ELSE IF Len(b) = 0 THEN [err |-> NewError(ioEOF), data |-> <<>>, rest |-> <<>>]
  ELSE [err |-> NewError(ioErrUnexpectedEOF), data |-> <<>>, rest |-> <<>>]

\* challengeParams.UnmarshalBinary into a zero challengeParams: the second
\* read is skipped after a failed first one; whatever is left is random.
UnmarshalBinary(b) ==
  LET r1 == BinaryRead(b, 4)
      target == IF r1.err = NoError THEN Uint32(r1.data) ELSE 0
      r2 == IF r1.err = NoError THEN BinaryRead(r1.rest, 8)
            ELSE [err |-> r1.err, data |-> <<>>, rest |-> r1.rest]
      expiresAt == IF r2.err = NoError THEN Int64(r2.data) ELSE 0
      random == IF Len(r2.rest) > 0 THEN r2.rest ELSE NilBytes
  IN [err |-> r2.err,
      c |-> [target |-> target, expiresAt |-> expiresAt, random |-> random]]

\* A digest state for the bytes of msg: the sum of every byte weighted by its
\* position, modulo a prime.  Changing one byte, or swapping two different
\* bytes, changes the result.  (The sum of the values of a function with
\* positive values is its cardinality as a bag.)
ByteFold(msg, h, modulus) ==
  (h + BagCardinality([i \in 1..Len(msg) |-> (msg[i] + 1) * (i * i + 1)])) % modulus

\* hmac.New(md5.New, secret) over msg: hSize bytes that depend on the secret
\* and on every byte of msg.  The digest is abstracted to the digest state of the
\* secret followed by msg, whose first two bytes carry the whole state, so that two messages (or two
\* secrets) that differ in one byte never share a signature.
hmacMD5(secret, msg) ==
  LET a == ByteFold(secret \o msg, 7, 65521)
  IN [i \in 1..hSize |->
        IF i = 1 THEN a \div 256
        ELSE IF i = 2 THEN a % 256
        ELSE (a * i + i) % 256]

\* newSeed: (version)+(signature of challengeParams)+(challengeParams).
newSeed(c, secret) ==
  LET cb == MarshalBinary(c)
  IN <<0>> \o hmacMD5(secret, cb) \o cb

\* Mutant of challengeParamsFromSeed: the version byte is not looked at.
challengeParamsFromSeed_anyVersion(seed, secret) ==
  IF Len(seed) < hSize + 1
  THEN [c |-> ZeroParams, err |-> NewError(errMalformedSeed)]
  ELSE LET rest == SliceFrom(seed, 1)
           sig == SliceTo(rest, hSize)
           cb == SliceFrom(rest, hSize)
       IN IF sig # hmacMD5(secret, cb)
          THEN [c |-> ZeroParams, err |-> NewError(errMalformedSeed)]
          ELSE LET u == UnmarshalBinary(cb)
               IN IF u.err # NoError
                  THEN [c |-> ZeroParams,
                        err |-> Wrap("unmarshaling challenge parameters", u.err)]
                  ELSE [c |-> u.c, err |-> NoError]

\* challengeParamsFromSeed.
challengeParamsFromSeed(seed, secret) ==
  IF Len(seed) < hSize + 1 \/ seed[1] # 0
  THEN [c |-> ZeroParams, err |-> NewError(errMalformedSeed)]
  ELSE LET rest == SliceFrom(seed, 1)
           sig == SliceTo(rest, hSize)
           cb == SliceFrom(rest, hSize)
       IN IF sig # hmacMD5(secret, cb)
          THEN [c |-> ZeroParams, err |-> NewError(errMalformedSeed)]
          ELSE LET u == UnmarshalBinary(cb)
               IN IF u.err # NoError
                  THEN [c |-> ZeroParams,
                        err |-> Wrap("unmarshaling challenge parameters", u.err)]
                  ELSE [c |-> u.c, err |-> NoError]

\* The Manager's signing secret, and a secret it does not have.
Secret == <<115, 104>>

OtherSecret == <<115, 105>>


\* ----------------------------------------------------------------- inputs

\* The bytes rand.Read may give NewChallenge.
Randoms == { Repeat(0, randomLen), [i \in 1..randomLen |-> i] }

\* The options a Manager is constructed with: those of the test harness
\* (a target, a timeout of one second) and the zero value.
RawOpts ==
  { [Target |-> 2, ChallengeTimeout |-> 1 * TicksPerSecond],
    [Target |-> 0, ChallengeTimeout |-> 0] }

\* Parameters signed into the seeds clients present: the harness's target
\* and another one, expiring after one and two seconds.
SignedParams ==
  { [target |-> 2, expiresAt |-> 1, random |-> Repeat(0, randomLen)],
    [target |-> 2, expiresAt |-> 2, random |-> Repeat(0, randomLen)],
    [target |-> 2, expiresAt |-> 2, random |-> [i \in 1..randomLen |-> i]],
    [target |-> 257, expiresAt |-> 2, random |-> Repeat(0, randomLen)] }

AuthenticSeeds == { newSeed(c, Secret) : c \in SignedParams }

\* An authentic seed and the ways of damaging it.
BaseSeed == newSeed([target |-> 2, expiresAt |-> 1, random |-> Repeat(0, randomLen)], Secret)

ShortPayload == SliceTo(MarshalBinary([target |-> 257, expiresAt |-> 2, random |-> NilBytes]), 11)

DamagedSeeds ==
  { <<>>,                                          \* empty
    SliceTo(BaseSeed, hSize),                      \* one byte short of a signature
    SetByte(BaseSeed, 1, 1),                       \* another version
    SetByte(BaseSeed, 2, (BaseSeed[2] + 1) % 256), \* a signature byte changed
    SetByte(BaseSeed, hSize + 13, 2),              \* expiresAt raised from 1 to 2
    newSeed([target |-> 257, expiresAt |-> 2, random |-> Repeat(0, randomLen)],
            OtherSecret),                          \* signed with another secret
    <<0>> \o hmacMD5(Secret, <<>>),                \* signed, no payload
    <<0>> \o hmacMD5(Secret, ShortPayload) \o ShortPayload } \* signed, short payload

SeedInputs == AuthenticSeeds \cup DamagedSeeds

\* The solutions tried for a seed: none, all zeroes of the seed's length,
\* and one byte more than the seed.
SolutionInputs(seed) ==
  { <<>>, Repeat(0, Len(seed)), Repeat(0, Len(seed) + 1) }

\* challengeParamsFromSeed under the Manager's secret, evaluated once for
\* each seed of the inputs.
OpenedSeeds == [seed \in SeedInputs |-> challengeParamsFromSeed(seed, Secret)]

\* -------------------------------------------------------- solution checker

\* sha512 of msg (sha512.Size bytes).  The digest is abstracted to a fold of
\* the message bytes in order; its leading four bytes take a few values on
\* both sides of the targets of the model, so that a hash value below, equal
\* to and above a target all occur.
sha512Sum(msg) ==
  LET h == ByteFold(msg, 11, 65521)
  IN [i \in 1..64 |->
        IF i <= 2 THEN 0
        ELSE IF i = 3 THEN h % 2
        ELSE IF i = 4 THEN (h \div 2) % 4
        ELSE (h + i) % 256]

\* sha512Sum, evaluated once for each seed and solution of the inputs.
Digests ==
  [msg \in { seed \o solution : seed \in SeedInputs, solution \in UNION { SolutionInputs(sd) : sd \in SeedInputs } } |->
     sha512Sum(msg)]

\* s.h.Reset(); s.h.Write(seed); s.h.Write(solution); s.h.Sum(s.sum[:0]).
HashOf(seed, solution) ==
  LET msg == seed \o solution
  IN IF msg \in DOMAIN Digests THEN Digests[msg] ELSE sha512Sum(msg)

\* Mutant of Check: a hash value equal to the target is accepted.
Check_atMost(challenge, solution) ==
  LET sum == sha512Sum(challenge.Seed \o solution)
      i == Uint32(SliceTo(sum, 4))
  IN i <= challenge.Target

\* SolutionChecker.Check: the scratch hash state is reset on every call, so
\* the result is a function of the challenge and the solution alone.
Check(challenge, solution) ==
  LET sum == HashOf(challenge.Seed, solution)
      i == Uint32(SliceTo(sum, 4))
  IN i < challenge.Target

\* ------------------------------------------------------------------ clock

\* time.Time.Unix(): whole seconds, rounded down.
Unix(t) == t \div TicksPerSecond

\* Mutant of TimeUnix: the seconds are taken for the clock's own unit.
TimeUnix_ticks(sec) == sec

\* time.Unix(sec, 0).
TimeUnix(sec) == sec * TicksPerSecond

\* ------------------------------------------------------- in-memory Store

\* The empty map of NewMemoryStore.
EmptyMap == << >>

\* memStoreKey{seed: string(seed), solution: string(solution)}.
memStoreKey(seed, solution) == <<seed, solution>>

\* Mutant of SetSolution: an entry's expiry is only ever extended.
SetSolution_keepLater(mp, seed, solution, expiresAt) ==
  LET key == <<seed, solution>>
      later == IF key \in DOMAIN mp /\ mp[key] > expiresAt THEN mp[key] ELSE expiresAt
  IN [err |-> NoError,
      m |-> [k \in DOMAIN mp \cup {key} |-> IF k = key THEN later ELSE mp[k]]]

\* Mutant of SetSolution: a pair that has an entry is refused.
SetSolution_insertOnly(mp, seed, solution, expiresAt) ==
  LET key == <<seed, solution>>
  IN IF key \in DOMAIN mp
     THEN [err |-> NewError("already solved"), m |-> mp]
     ELSE [err |-> NoError,
           m |-> [k \in DOMAIN mp \cup {key} |-> IF k = key THEN expiresAt ELSE mp[k]]]

\* inMemStore.SetSolution on the map mp: s.m[key] = expiresAt; return nil.
SetSolution(mp, seed, solution, expiresAt) ==
  LET key == memStoreKey(seed, solution)
  IN [err |-> NoError,
      m |-> [k \in DOMAIN mp \cup {key} |-> IF k = key THEN expiresAt ELSE mp[k]]]

\* Mutant of IsSolution: an entry is still good at the instant it expires.
IsSolution_notBefore(mp, t, seed, solution) ==
  LET key == <<seed, solution>>
  IN key \in DOMAIN mp /\ mp[key] >= t

\* Mutant of IsSolution: entries are looked up by the seed alone.
IsSolution_anySolution(mp, t, seed, solution) ==
  \E key \in DOMAIN mp : key[1] = seed /\ mp[key] > t

\* inMemStore.IsSolution on the map mp at clock time t:
\* ok && expiresAt.After(s.opts.Clock.Now()).
IsSolution(mp, t, seed, solution) ==
  LET key == memStoreKey(seed, solution)
  IN key \in DOMAIN mp /\ mp[key] > t

\* Mutant of spinSweep: entries that expire within the next second go too.
spinSweep_early(mp, t) ==
  [k \in { j \in DOMAIN mp : t + TicksPerSecond < mp[j] } |-> mp[k]]

\* The sweep of inMemStore.spin at clock time t: every entry with
\* !now.Before(expiresAt) is deleted.
spinSweep(mp, t) ==
  [k \in { j \in DOMAIN mp : t < mp[j] } |-> mp[k]]

\* ----------------------------------------------------------------- Manager

\* ManagerOpts.withDefaults (ChallengeTimeout in ticks; the clock is the one
\* the Store uses, as in NewManager's callers).
withDefaults(o) ==
  [Target |-> IF o.Target = 0 THEN DefaultTarget ELSE o.Target,
   ChallengeTimeout |->
     IF o.ChallengeTimeout = 0
     THEN DefaultChallengeTimeoutSeconds * TicksPerSecond
     ELSE o.ChallengeTimeout]

\* Mutant of NewChallenge: the timeout's count is added to the Unix seconds.
NewChallenge_durationAsSeconds(o, t, random) ==
  LET c == [target |-> o.Target,
            expiresAt |-> Unix(t) + o.ChallengeTimeout,
            random |-> random]
  IN [Seed |-> newSeed(c, Secret), Target |-> c.target]

\* manager.NewChallenge at clock time t with the bytes rand.Read gave.
NewChallenge(o, t, random) ==
  LET c == [target |-> o.Target,
            expiresAt |-> Unix(t + o.ChallengeTimeout),
            random |-> random]
  IN [Seed |-> newSeed(c, Secret), Target |-> c.target]

\* challengeParamsFromSeed(seed, m.secret).
OpenSeed(seed) ==
  IF seed \in DOMAIN OpenedSeeds THEN OpenedSeeds[seed]
  ELSE challengeParamsFromSeed(seed, Secret)

\* Mutant of SolutionTooLong: a solution one byte longer than the seed passes.
SolutionTooLong_offByOne(seed, solution) == Len(solution) > Len(seed) + 1

\* len(solution) > len(seed), the first test of CheckSolution.
SolutionTooLong(seed, solution) == Len(solution) > Len(seed)

\* Mutant of SeedExpired: a seed is still good in the second it expires in.
SeedExpired_strict(c, t) == c.expiresAt < Unix(t)

\* c.expiresAt <= now, with now := m.opts.Clock.Now().Unix().
SeedExpired(c, t) == c.expiresAt <= Unix(t)

\* What a CheckSolution call did and returned: the error, the Store's map
\* after it, and which of its steps ran.
Outcome(err, mp, storeRead, opened, hashed, stored) ==
  [err |-> err, m |-> mp, storeRead |-> storeRead, opened |-> opened,
   hashed |-> hashed, stored |-> stored]

\* Mutant of CheckSolution: the pair is recorded before the hash is checked.
CheckSolution_storeFirst(mp, t, seed, solution) ==
  IF SolutionTooLong(seed, solution)
  THEN Outcome(NewError(ErrInvalidSolution), mp, FALSE, FALSE, FALSE, FALSE)
  ELSE IF IsSolution(mp, t, seed, solution)
  THEN Outcome(NoError, mp, TRUE, FALSE, FALSE, FALSE)
  ELSE LET p == OpenSeed(seed)
       IN IF p.err # NoError
          THEN Outcome(Wrap("parsing challenge parameters from seed", p.err),
                       mp, TRUE, TRUE, FALSE, FALSE)
          ELSE IF SeedExpired(p.c, t)
          THEN Outcome(NewError(ErrExpiredSeed), mp, TRUE, TRUE, FALSE, FALSE)
          ELSE LET w == SetSolution(mp, seed, solution, TimeUnix(p.c.expiresAt))
               IN IF ~Check([Seed |-> seed, Target |-> p.c.target], solution)
                  THEN Outcome(NewError(ErrInvalidSolution), w.m, TRUE, TRUE, TRUE, TRUE)
                  ELSE Outcome(NoError, w.m, TRUE, TRUE, TRUE, TRUE)

\* manager.CheckSolution on the Store map mp at clock time t.
CheckSolution(mp, t, seed, solution) ==
  IF SolutionTooLong(seed, solution)
  THEN Outcome(NewError(ErrInvalidSolution), mp, FALSE, FALSE, FALSE, FALSE)
  ELSE IF IsSolution(mp, t, seed, solution)
  THEN Outcome(NoError, mp, TRUE, FALSE, FALSE, FALSE)
  ELSE LET p == OpenSeed(seed)
       IN IF p.err # NoError
          THEN Outcome(Wrap("parsing challenge parameters from seed", p.err),
                       mp, TRUE, TRUE, FALSE, FALSE)
          ELSE IF SeedExpired(p.c, t)
          THEN Outcome(NewError(ErrExpiredSeed), mp, TRUE, TRUE, FALSE, FALSE)
          ELSE IF ~Check([Seed |-> seed, Target |-> p.c.target], solution)
          THEN Outcome(NewError(ErrInvalidSolution), mp, TRUE, TRUE, TRUE, FALSE)
          ELSE LET w == SetSolution(mp, seed, solution, TimeUnix(p.c.expiresAt))
               IN IF w.err # NoError
                  THEN Outcome(Wrap("marking solution as solved", w.err),
                               w.m, TRUE, TRUE, TRUE, TRUE)
                  ELSE Outcome(NoError, w.m, TRUE, TRUE, TRUE, TRUE)

\* ------------------------------------------------------------------ state

VARIABLES
  opts,      \* manager.opts, after withDefaults
  now,       \* the clock the Manager and the Store share, in ticks
  m,         \* inMemStore.m: memStoreKey -> expiry, in ticks
  verified,  \* history: the keys CheckSolution has accepted so far
  last,      \* the most recent call, its arguments and what it returned
  closeCh,   \* inMemStore.closeCh: "open" or "closed"
  tickerC,   \* the number of ticks waiting in ticker.C (a channel of one)
  spinning,  \* TRUE while the goroutine running inMemStore.spin is alive
  solve,     \* a client's call of Solve: its challenge, position and buffer
  calls,     \* the calls of CheckSolution in progress, one for each caller
  config,    \* what the Manager was constructed from, and by whom
  l,         \* inMemStore.l: the goroutine holding it for writing, those for reading
  spin,      \* where the goroutine of inMemStore.spin stands, and its local now
  solutionChecker,     \* the solutionChecker each CheckSolution call holds
  solutionCheckerPool, \* manager.solutionCheckerPool: the checkers put back
  closeCalls, \* the calls of inMemStore.Close
  js         \* the page's script in a browser: its constants, buffer and cookies

vars ==
  <<opts, now, m, verified, last, closeCh, tickerC, spinning, solve, calls, config,
    l, spin, solutionChecker, solutionCheckerPool, closeCalls, js>>

\* The Store's lock, the checker pool and the calls of Close.
syncVars == <<l, spin, solutionChecker, solutionCheckerPool, closeCalls>>

\* The state of the Store's background task.
taskVars == <<closeCh, tickerC, spinning>>

NoChallenge == [Seed |-> <<>>, Target |-> 0]

\* The goroutines that call CheckSolution at the same time.
NumCallers == 2

Callers == 1..NumCallers

\* A caller that has not called yet.
NoCheck ==
  [pc |-> "idle", seed |-> <<>>, solution |-> <<>>, c |-> ZeroParams,
   err |-> NoError, hashed |-> FALSE]

\* No call of Solve has been made.  issuedAt is the clock time at which the
\* challenge being solved was issued.
NoSolve == [pc |-> "idle", challenge |-> NoChallenge, b |-> <<>>, issuedAt |-> 0]

\* A record of a call: op names it; at and pre are the clock time and the
\* Store's map when it was made.
Call(op, seed, solution, expiresAt, err, ok, out, challenge) ==
  [op |-> op, seed |-> seed, solution |-> solution, expiresAt |-> expiresAt,
   err |-> err, ok |-> ok, at |-> now, pre |-> m,
   wasVerified |-> memStoreKey(seed, solution) \in verified,
   storeRead |-> out.storeRead, opened |-> out.opened,
   hashed |-> out.hashed, stored |-> out.stored, challenge |-> challenge]

NoSteps == [storeRead |-> FALSE, opened |-> FALSE, hashed |-> FALSE, stored |-> FALSE]

NoCall ==
  [op |-> "none", seed |-> <<>>, solution |-> <<>>, expiresAt |-> 0,
   err |-> NoError, ok |-> FALSE, at |-> 0, pre |-> EmptyMap,
   wasVerified |-> FALSE,
   storeRead |-> FALSE, opened |-> FALSE, hashed |-> FALSE, stored |-> FALSE,
   challenge |-> NoChallenge]

\* inMemStore.l with no holder; the goroutine of spin holds it as SpinId.
NoHolder == -1

SpinId == 0

Unlocked == [w |-> NoHolder, r |-> {}]

\* A call that holds no solutionChecker; the checkers are numbered from 1.
NoChecker == 0

\* The goroutines that call Close.
NumClosers == 2

Closers == 1..NumClosers

\* No page is loaded in the browser.
NoScript ==
  [pc |-> "none", seedStr |-> <<>>, target |-> <<>>, seed |-> <<>>,
   randBuf |-> <<>>, tried |-> FALSE, accepted |-> FALSE,
   cookies |-> [seed |-> <<-1>>, solution |-> <<-1>>],
   challenge |-> NoChallenge]

\* NewMemoryStore and NewManager: an empty map, the options defaulted.
Init ==
  /\ config \in { [via |-> "NewManager", opts |-> o] : o \in RawOpts }
  /\ opts = withDefaults(config.opts)
  /\ now = 0
  /\ m = EmptyMap
  /\ verified = {}
  /\ last = NoCall
  /\ closeCh = "open"
  /\ tickerC = 0
  /\ spinning = TRUE
  /\ solve = NoSolve
  /\ calls = [i \in Callers |-> NoCheck]
  /\ l = Unlocked
  /\ spin = [pc |-> "select", now |-> 0]
  /\ solutionChecker = [i \in Callers |-> NoChecker]
  /\ solutionCheckerPool = {}
  /\ closeCalls = [j \in Closers |-> "idle"]
  /\ js = NoScript

\* The clock advances by one tick.
ClockAdd ==
  /\ now < MaxNow
  /\ now' = now + 1
  /\ last' = NoCall
  /\ UNCHANGED <<opts, m, verified>>
  /\ UNCHANGED taskVars
  /\ UNCHANGED syncVars
  /\ UNCHANGED js
  /\ UNCHANGED config
  /\ UNCHANGED calls
  /\ UNCHANGED solve

\* inMemStore.spin receives a tick and sweeps the map, while the Store is
\* open.  The ticker's period is not modelled: a tick may arrive at any
\* instant.
spinTick ==
  /\ spinning /\ closeCh = "open"
  /\ m' = spinSweep(m, now)
  /\ last' = NoCall
  /\ UNCHANGED <<opts, now, verified>>
  /\ UNCHANGED taskVars
  /\ UNCHANGED syncVars
  /\ UNCHANGED js
  /\ UNCHANGED config
  /\ UNCHANGED calls
  /\ UNCHANGED solve

\* A call of manager.NewChallenge.
NewChallengeCall ==
  \E random \in Randoms :
    /\ last' = Call("NewChallenge", <<>>, <<>>, 0, NoError, FALSE, NoSteps,
                    NewChallenge(opts, now, random))
    /\ UNCHANGED <<opts, now, m, verified>>
    /\ UNCHANGED taskVars
    /\ UNCHANGED syncVars
    /\ UNCHANGED js
    /\ UNCHANGED config
    /\ UNCHANGED calls
    /\ UNCHANGED solve

\* A call of manager.CheckSolution.
CheckSolutionCall ==
  \E seed \in SeedInputs :
    \E solution \in SolutionInputs(seed) :
      LET out == CheckSolution(m, now, seed, solution)
      IN /\ m' = out.m
         /\ last' = Call("CheckSolution", seed, solution, 0, out.err,
                         out.err = NoError, out, NoChallenge)
         /\ verified' = IF out.err = NoError
                        THEN verified \cup {memStoreKey(seed, solution)}
                        ELSE verified
         /\ UNCHANGED <<opts, now>>
         /\ UNCHANGED taskVars
         /\ UNCHANGED syncVars
         /\ UNCHANGED js
         /\ UNCHANGED config
         /\ UNCHANGED calls
         /\ UNCHANGED solve

Next ==
  \/ ClockAdd
  \/ spinTick
  \/ NewChallengeCall
  \/ CheckSolutionCall

Spec == Init /\ [][Next]_vars

\* ------------------------------------------------- the Store used directly

\* Seeds, solutions and expiry times (in ticks) given to the Store's own
\* methods: any bytes are a seed or a solution to the Store.
StoreSeeds == { <<7>>, <<7, 7>> }

StoreSolutions(seed) == IF seed = <<7>> THEN { <<1>>, <<2>> } ELSE { <<1>> }

StoreExpiries == { 0, 2, 3 }

\* A call of inMemStore.SetSolution.
SetSolutionCall ==
  \E seed \in StoreSeeds :
    \E solution \in StoreSolutions(seed) :
      \E expiresAt \in StoreExpiries :
        LET w == SetSolution(m, seed, solution, expiresAt)
        IN /\ m' = w.m
           /\ last' = Call("SetSolution", seed, solution, expiresAt, w.err,
                           FALSE, NoSteps, NoChallenge)
           /\ UNCHANGED <<opts, now, verified>>
           /\ UNCHANGED taskVars
           /\ UNCHANGED syncVars
           /\ UNCHANGED js
           /\ UNCHANGED config
           /\ UNCHANGED calls
           /\ UNCHANGED solve

\* A call of inMemStore.IsSolution.
IsSolutionCall ==
  \E seed \in StoreSeeds :
    \E solution \in StoreSolutions(seed) :
      /\ last' = Call("IsSolution", seed, solution, 0, NoError,
                      IsSolution(m, now, seed, solution), NoSteps, NoChallenge)
      /\ UNCHANGED <<opts, now, m, verified>>
      /\ UNCHANGED taskVars
      /\ UNCHANGED syncVars
      /\ UNCHANGED js
      /\ UNCHANGED config
      /\ UNCHANGED calls
      /\ UNCHANGED solve

NextStore ==
  \/ ClockAdd
  \/ spinTick
  \/ SetSolutionCall
  \/ IsSolutionCall

SpecStore == Init /\ [][NextStore]_vars


\* ------------------------------------------- the Store's task and Close

\* The cases of the select in inMemStore.spin that can proceed: a tick waits
\* in ticker.C, closeCh is closed.  Go picks one of them at random.
spinReady(ticks, ch) ==
  (IF ticks > 0 THEN {"tick"} ELSE {}) \cup (IF ch = "closed" THEN {"close"} ELSE {})

\* Mutant of spinSelect: the close case leaves the select, not the loop.
spinSelect_breakOnly(choice, mp, t) ==
  IF choice = "tick"
  THEN [m |-> spinSweep(mp, t), spinning |-> TRUE]
  ELSE [m |-> mp, spinning |-> TRUE]

\* One iteration of the loop of inMemStore.spin with the case chosen: the
\* tick case sweeps and loops, the close case returns.
spinSelect(choice, mp, t) ==
  IF choice = "tick"
  THEN [m |-> spinSweep(mp, t), spinning |-> TRUE]
  ELSE [m |-> mp, spinning |-> FALSE]

\* The ticker sends a tick; ticker.C holds one tick, a further one is dropped.
\* The deferred ticker.Stop ends the ticks when spin returns.
tickerFire ==
  /\ spinning
  /\ tickerC' = 1
  /\ last' = NoCall
  /\ UNCHANGED <<opts, now, m, verified, closeCh, spinning, solve, calls, config>>
  /\ UNCHANGED syncVars
  /\ UNCHANGED js

\* Mutant of spinTickCase: the tick case is taken though spin has returned.
spinTickCase_afterReturn ==
  /\ "tick" \in spinReady(tickerC, closeCh)
  /\ m' = spinSweep(m, now)
  /\ tickerC' = 0
  /\ last' = Call("spin", <<>>, <<>>, 0, NoError, FALSE, NoSteps, NoChallenge)
  /\ UNCHANGED <<opts, now, verified, closeCh, spinning, solve, calls, config>>
  /\ UNCHANGED syncVars
  /\ UNCHANGED js

\* inMemStore.spin takes the tick case of its select.
spinTickCase ==
  /\ spinning
  /\ "tick" \in spinReady(tickerC, closeCh)
  /\ LET r == spinSelect("tick", m, now)
     IN /\ m' = r.m
        /\ spinning' = r.spinning
  /\ tickerC' = 0
  /\ last' = Call("spin", <<>>, <<>>, 0, NoError, FALSE, NoSteps, NoChallenge)
  /\ UNCHANGED <<opts, now, verified, closeCh, solve, calls, config>>
  /\ UNCHANGED syncVars
  /\ UNCHANGED js

\* inMemStore.spin takes the close case of its select.
spinCloseCase ==
  /\ spinning
  /\ "close" \in spinReady(tickerC, closeCh)
  /\ LET r == spinSelect("close", m, now)
     IN /\ m' = r.m
        /\ spinning' = r.spinning
  /\ last' = NoCall
  /\ UNCHANGED <<opts, now, verified, closeCh, tickerC, solve, calls, config>>
  /\ UNCHANGED syncVars
  /\ UNCHANGED js

\* inMemStore.Close, called once: close(s.closeCh); return nil.
CloseCall ==
  /\ closeCh = "open"
  /\ closeCh' = "closed"
  /\ last' = Call("Close", <<>>, <<>>, 0, NoError, FALSE, NoSteps, NoChallenge)
  /\ UNCHANGED <<opts, now, m, verified, tickerC, spinning, solve, calls, config>>
  /\ UNCHANGED syncVars
  /\ UNCHANGED js

NextTask ==
  \/ ClockAdd
  \/ tickerFire
  \/ spinTickCase
  \/ spinCloseCase
  \/ CloseCall
  \/ SetSolutionCall
  \/ IsSolutionCall

SpecTask == Init /\ [][NextTask]_vars

\* Go's select picks at random among the cases that can proceed, so a case
\* that can proceed again and again is taken in the end.
SpecTaskLive == SpecTask /\ SF_vars(spinCloseCase)


\* ------------------------------------------------- the seed codec directly

\* Parameters given to newSeed: targets up to 2^31 - 1, expiresAt before and
\* after the epoch, random bytes that are nil, empty, short and of
\* NewChallenge's length.
CodecTargets == { 0, 258, 2147483647 }

CodecExpiries == { -10, 0, 3 }

CodecRandoms == { NilBytes, <<>>, <<0, 1, 2>>, [i \in 1..randomLen |-> i] }

CodecParams ==
  { [target |-> t, expiresAt |-> e, random |-> r] :
      t \in CodecTargets, e \in CodecExpiries, r \in CodecRandoms }

CodecSecrets == { Secret, OtherSecret }

\* A record of a codec call: c and signedWith are what the seed was built
\* from, damage tells what was done to it since, secret is the secret it was
\* opened with and result what opening returned.
CodecCall(op, c, signedWith, seed, damage, secret, result) ==
  [op |-> op, c |-> c, signedWith |-> signedWith, seed |-> seed,
   damage |-> damage, secret |-> secret, result |-> result]

\* A call of newSeed, the first step of a run: a seed is built, may be
\* damaged, and is opened.
newSeedCall ==
  /\ last.op = "none"
  /\ \E c \in CodecParams :
       \E secret \in CodecSecrets :
         last' = CodecCall("newSeed", c, secret, newSeed(c, secret), "none",
                           <<>>, [c |-> ZeroParams, err |-> NoError])
  /\ UNCHANGED <<opts, now, m, verified>>
  /\ UNCHANGED taskVars
  /\ UNCHANGED syncVars
  /\ UNCHANGED js
  /\ UNCHANGED config
  /\ UNCHANGED calls
  /\ UNCHANGED solve

\* The seed comes back from its holder with one byte changed.
changeByte ==
  /\ last.op = "newSeed"
  /\ \E i \in 1..Len(last.seed) :
       \E d \in { 1, 128 } :
         last' = [last EXCEPT !.op = "damage",
                              !.seed = SetByte(last.seed, i, (last.seed[i] + d) % 256),
                              !.damage = IF i = 1 THEN "version"
                                         ELSE IF i <= hSize + 1 THEN "signature"
                                         ELSE "payload"]
  /\ UNCHANGED <<opts, now, m, verified>>
  /\ UNCHANGED taskVars
  /\ UNCHANGED syncVars
  /\ UNCHANGED js
  /\ UNCHANGED config
  /\ UNCHANGED calls
  /\ UNCHANGED solve

\* The seed comes back cut to fewer bytes than a version and a signature.
cutShort ==
  /\ last.op = "newSeed"
  /\ \E n \in 0..hSize :
       last' = [last EXCEPT !.op = "damage", !.seed = SliceTo(last.seed, n),
                            !.damage = "short"]
  /\ UNCHANGED <<opts, now, m, verified>>
  /\ UNCHANGED taskVars
  /\ UNCHANGED syncVars
  /\ UNCHANGED js
  /\ UNCHANGED config
  /\ UNCHANGED calls
  /\ UNCHANGED solve

\* A call of challengeParamsFromSeed on the seed at hand.
challengeParamsFromSeedCall ==
  /\ last.op \in { "newSeed", "damage" }
  /\ \E secret \in CodecSecrets :
       last' = [last EXCEPT !.op = "challengeParamsFromSeed",
                            !.secret = secret,
                            !.result = challengeParamsFromSeed(last.seed, secret)]
  /\ UNCHANGED <<opts, now, m, verified>>
  /\ UNCHANGED taskVars
  /\ UNCHANGED syncVars
  /\ UNCHANGED js
  /\ UNCHANGED config
  /\ UNCHANGED calls
  /\ UNCHANGED solve

NextCodec ==
  \/ newSeedCall
  \/ changeByte
  \/ cutShort
  \/ challengeParamsFromSeedCall

SpecCodec == Init /\ [][NextCodec]_vars


\* ------------------------------------------- UnmarshalBinary directly

\* Serialized parameters whose prefixes are given to UnmarshalBinary: every
\* length from nothing to a few bytes past the fixed 12.
UnmarshalBases ==
  { MarshalBinary([target |-> 258, expiresAt |-> 3, random |-> <<9, 8, 7>>]),
    MarshalBinary([target |-> 2147483647, expiresAt |-> -10, random |-> <<0, 0, 0>>]),
    MarshalBinary([target |-> 0, expiresAt |-> 0, random |-> <<255, 0, 1>>]),
    MarshalBinary([target |-> 65536, expiresAt |-> 256, random |-> <<1, 2, 3>>]) }

UnmarshalInputs ==
  { SliceTo(base, n) : base \in UnmarshalBases, n \in 0..15 }

\* var c challengeParams; err := c.UnmarshalBinary(b).
UnmarshalBinaryCall ==
  \E b \in UnmarshalInputs :
    \E u \in { UnmarshalBinary(b) } :
      /\ last' = [op |-> "UnmarshalBinary", b |-> b, err |-> u.err, c |-> u.c]
      /\ UNCHANGED <<opts, now, m, verified, solve, calls, config>>
      /\ UNCHANGED taskVars
      /\ UNCHANGED syncVars
      /\ UNCHANGED js

\* challengeParamsFromSeed of the bytes b signed as newSeed signs a payload.
signedBytesCall ==
  \E b \in UnmarshalInputs :
    \E seed \in { <<0>> \o hmacMD5(Secret, b) \o b } :
      \E r \in { challengeParamsFromSeed(seed, Secret) } :
        /\ last' = [op |-> "challengeParamsFromSeed", b |-> b, seed |-> seed,
                    err |-> r.err, c |-> r.c]
        /\ UNCHANGED <<opts, now, m, verified, solve, calls, config>>
        /\ UNCHANGED taskVars
        /\ UNCHANGED syncVars
        /\ UNCHANGED js

NextUnmarshal ==
  \/ UnmarshalBinaryCall
  \/ signedBytesCall

SpecUnmarshal == Init /\ [][NextUnmarshal]_vars

\* ------------------------------------------------------------------ Solve

\* The byte values rand.Read fills Solve's buffer with.
SolveBytes == 0..3

\* Mutant of SolveBuffers: the buffer is one byte longer than the seed.
SolveBuffers_oneMore(challenge) ==
  { Repeat(k, Len(challenge.Seed) + 1) : k \in SolveBytes }

\* What rand.Read may leave in b, made with make([]byte, len(challenge.Seed)).
SolveBuffers(challenge) ==
  { Repeat(k, Len(challenge.Seed)) : k \in SolveBytes }

\* A client calls Solve with the Challenge NewChallenge has just returned.
SolveCall ==
  /\ solve.pc = "idle"
  /\ last.op = "NewChallenge"
  /\ solve' = [pc |-> "loop", challenge |-> last.challenge, b |-> <<>>,
               issuedAt |-> last.at]
  /\ UNCHANGED <<opts, now, m, verified, last>>
  /\ UNCHANGED taskVars
  /\ UNCHANGED syncVars
  /\ UNCHANGED js
  /\ UNCHANGED config
  /\ UNCHANGED calls

\* One iteration of the loop of Solve: fill b, return it if it passes Check.
SolveLoop ==
  /\ solve.pc = "loop"
  /\ \E b \in SolveBuffers(solve.challenge) :
       solve' = [solve EXCEPT !.b = b,
                              !.pc = IF Check(solve.challenge, b)
                                     THEN "done" ELSE "loop"]
  /\ UNCHANGED <<opts, now, m, verified, last>>
  /\ UNCHANGED taskVars
  /\ UNCHANGED syncVars
  /\ UNCHANGED js
  /\ UNCHANGED config
  /\ UNCHANGED calls

\* The client presents the seed and what Solve returned to CheckSolution.
CheckSolvedCall ==
  /\ solve.pc = "done"
  /\ LET seed == solve.challenge.Seed
         out == CheckSolution(m, now, seed, solve.b)
     IN /\ m' = out.m
        /\ last' = Call("CheckSolution", seed, solve.b, 0, out.err,
                        out.err = NoError, out, NoChallenge)
        /\ verified' = IF out.err = NoError
                       THEN verified \cup {memStoreKey(seed, solve.b)}
                       ELSE verified
  /\ UNCHANGED <<opts, now, solve>>
  /\ UNCHANGED taskVars
  /\ UNCHANGED syncVars
  /\ UNCHANGED js
  /\ UNCHANGED config
  /\ UNCHANGED calls

NextSolve ==
  \/ ClockAdd
  \/ spinTick
  \/ NewChallengeCall
  \/ SolveCall
  \/ SolveLoop
  \/ CheckSolvedCall

SpecSolve == Init /\ [][NextSolve]_vars


\* ------------------------------------------- CheckSolution, step by step

\* The seeds and solutions concurrent callers present: an authentic seed,
\* with no solution and with one of the seed's length.
ConcSeeds ==
  { newSeed([target |-> 257, expiresAt |-> 2, random |-> Repeat(0, randomLen)], Secret) }

ConcSolutions(seed) == { <<>>, Repeat(0, Len(seed)) }

\* The caller's call returns err.
Return(i, err) == [calls EXCEPT ![i].pc = "done", ![i].err = err]

\* Caller i calls CheckSolution: the length test.
csBegin(i) ==
  /\ calls[i].pc = "idle"
  /\ \E seed \in ConcSeeds :
       \E solution \in ConcSolutions(seed) :
         calls' = IF SolutionTooLong(seed, solution)
                  THEN [calls EXCEPT ![i] =
                          [NoCheck EXCEPT !.seed = seed, !.solution = solution,
                                          !.pc = "done",
                                          !.err = NewError(ErrInvalidSolution)]]
                  ELSE [calls EXCEPT ![i] =
                          [NoCheck EXCEPT !.seed = seed, !.solution = solution,
                                          !.pc = "IsSolution"]]
  /\ UNCHANGED <<opts, now, m, verified, last, solve>>
  /\ UNCHANGED taskVars
  /\ UNCHANGED syncVars
  /\ UNCHANGED js
  /\ UNCHANGED config

\* m.store.IsSolution(seed, solution), under the Store's read lock.
csIsSolution(i) ==
  /\ calls[i].pc = "IsSolution"
  /\ calls' = IF IsSolution(m, now, calls[i].seed, calls[i].solution)
              THEN Return(i, NoError)
              ELSE [calls EXCEPT ![i].pc = "open"]
  /\ UNCHANGED <<opts, now, m, verified, last, solve>>
  /\ UNCHANGED taskVars
  /\ UNCHANGED syncVars
  /\ UNCHANGED js
  /\ UNCHANGED config

\* challengeParamsFromSeed, then the clock is read for the expiry test.
csOpen(i) ==
  /\ calls[i].pc = "open"
  /\ LET p == OpenSeed(calls[i].seed)
     IN calls' = IF p.err # NoError
                 THEN Return(i, Wrap("parsing challenge parameters from seed", p.err))
                 ELSE IF SeedExpired(p.c, now)
                 THEN Return(i, NewError(ErrExpiredSeed))
                 ELSE [calls EXCEPT ![i].pc = "Check", ![i].c = p.c]
  /\ UNCHANGED <<opts, now, m, verified, last, solve>>
  /\ UNCHANGED taskVars
  /\ UNCHANGED syncVars
  /\ UNCHANGED js
  /\ UNCHANGED config

\* solutionChecker.Check on the caller's own checker.
csCheck(i) ==
  /\ calls[i].pc = "Check"
  /\ calls' = IF ~Check([Seed |-> calls[i].seed, Target |-> calls[i].c.target],
                        calls[i].solution)
              THEN [Return(i, NewError(ErrInvalidSolution)) EXCEPT ![i].hashed = TRUE]
              ELSE [calls EXCEPT ![i].pc = "SetSolution", ![i].hashed = TRUE]
  /\ UNCHANGED <<opts, now, m, verified, last, solve>>
  /\ UNCHANGED taskVars
  /\ UNCHANGED syncVars
  /\ UNCHANGED js
  /\ UNCHANGED config

\* m.store.SetSolution(seed, solution, expiresAt), under the Store's lock.
csSetSolution(i) ==
  /\ calls[i].pc = "SetSolution"
  /\ LET w == SetSolution(m, calls[i].seed, calls[i].solution,
                          TimeUnix(calls[i].c.expiresAt))
     IN /\ m' = w.m
        /\ calls' = IF w.err # NoError
                    THEN Return(i, Wrap("marking solution as solved", w.err))
                    ELSE Return(i, NoError)
  /\ verified' = verified \cup {memStoreKey(calls[i].seed, calls[i].solution)}
  /\ UNCHANGED <<opts, now, last, solve>>
  /\ UNCHANGED taskVars
  /\ UNCHANGED syncVars
  /\ UNCHANGED js
  /\ UNCHANGED config

NextConc ==
  \/ ClockAdd
  \/ spinTick
  \/ \E i \in Callers : csBegin(i)
  \/ \E i \in Callers : csIsSolution(i)
  \/ \E i \in Callers : csOpen(i)
  \/ \E i \in Callers : csCheck(i)
  \/ \E i \in Callers : csSetSolution(i)

SpecConc == Init /\ [][NextConc]_vars


\* ------------------------------------------- the proof_of_work handler

\* The target ProofOfWork.Provision sets when none is configured (0x000FFFFF).
HandlerDefaultTarget == 1048575

\* Mutant of ProvisionOpts: the handler leaves the default to the Manager.
ProvisionOpts_asGiven(p) ==
  [Target |-> p.Target, ChallengeTimeout |-> p.ChallengeTimeout]

\* The ManagerOpts ProofOfWork.Provision gives NewManager, from the
\* handler's configured Target and ChallengeTimeout.
ProvisionOpts(p) ==
  [Target |-> IF p.Target = 0 THEN HandlerDefaultTarget ELSE p.Target,
   ChallengeTimeout |-> p.ChallengeTimeout]

\* The options of the Manager a constructor makes from what it is given.
Construct(cfg) ==
  IF cfg.via = "Provision" THEN withDefaults(ProvisionOpts(cfg.opts))
  ELSE withDefaults(cfg.opts)

\* A request without the cookie.
NoCookie == <<-1>>

\* A character of a cookie value that is no hexadecimal digit; the digits are
\* their values 0..15.
NotHex == 16

\* hex.EncodeToString.
hexEncodeToString(b) ==
  [i \in 1..(2 * Len(b)) |->
     IF i % 2 = 1 THEN b[(i + 1) \div 2] \div 16 ELSE b[i \div 2] % 16]

\* hex.DecodeString with its error dropped: the bytes of the pairs of digits
\* that come before the first character that is no digit, or before an odd
\* last character.
hexDecodeString(str) ==
  LET bad == { j \in 1..Len(str) : str[j] >= NotHex }
      first == IF bad = {} THEN Len(str) + 1
               ELSE CHOOSE j \in bad : \A k \in bad : j <= k
      n == (first - 1) \div 2
  IN [i \in 1..n |-> str[2 * i - 1] * 16 + str[2 * i]]

\* The handler's configurations: nothing configured, and a target and a
\* lifetime.
HandlerConfigs ==
  { [via |-> "Provision", opts |-> [Target |-> 0, ChallengeTimeout |-> 0]],
    [via |-> "Provision", opts |-> [Target |-> 2, ChallengeTimeout |-> 1 * TicksPerSecond]] }

\* The seeds browsers send back: one whose empty solution passes Check, one
\* whose all-zero solution does, and one with its version changed.
HTTPSeeds ==
  { BaseSeed,
    newSeed([target |-> 257, expiresAt |-> 2, random |-> Repeat(0, randomLen)], Secret),
    SetByte(BaseSeed, 1, 1) }

\* The seed cookie: none, one of no digits, a seed in digits, and a seed in
\* digits followed by other characters.
SeedCookies ==
  {NoCookie, <<NotHex>>}
    \cup { hexEncodeToString(seed) : seed \in HTTPSeeds }
    \cup { hexEncodeToString(BaseSeed) \o <<NotHex, 1>> }

\* The solution cookie: none, an empty one, zeroes of the seed's length in
\* digits, and the same followed by an odd digit.
SolutionCookies ==
  { NoCookie, <<>>,
    hexEncodeToString(Repeat(0, Len(BaseSeed))),
    hexEncodeToString(Repeat(0, Len(BaseSeed))) \o <<1>> }

Requests ==
  { [seedCookie |-> a, solutionCookie |-> b, tpl |-> t] :
      a \in SeedCookies, b \in SolutionCookies,
      t \in { "ok", "unreadable", "unexecutable" } }

\* hex.DecodeString of the cookie values of the inputs, evaluated once.
DecodedCookies ==
  [str \in (SeedCookies \cup SolutionCookies) \ {NoCookie} |->
     LET b == hexDecodeString(str) IN SubSeq(b, 1, Len(b))]

\* getCookieBytes of ProofOfWork.checkSolution: nil without the cookie.
getCookieBytes(cookie) ==
  IF cookie = NoCookie THEN <<>>
  ELSE IF cookie \in DOMAIN DecodedCookies THEN DecodedCookies[cookie]
  ELSE hexDecodeString(cookie)

\* Mutant of checkSolution: empty cookie values go to the Manager.
checkSolution_allowEmpty(mp, t, req) ==
  CHOOSE out \in
    { CheckSolution(mp, t, seed, solution) :
        seed \in { getCookieBytes(req.seedCookie) },
        solution \in { getCookieBytes(req.solutionCookie) } } : TRUE

\* ProofOfWork.checkSolution: seed and solution are decoded once, then
\* tested and passed on.
checkSolution(mp, t, req) ==
  CHOOSE out \in
    { IF Len(seed) = 0 \/ Len(solution) = 0
      THEN Outcome(NewError("seed and/or solution not given"), mp,
                   FALSE, FALSE, FALSE, FALSE)
      ELSE CheckSolution(mp, t, seed, solution) :
        seed \in { getCookieBytes(req.seedCookie) },
        solution \in { getCookieBytes(req.solutionCookie) } } : TRUE

\* No challenge page.
NoPage == [Seed |-> <<>>, Target |-> 0]

\* tplData of ProofOfWork.ServeHTTP: the challenge as the page carries it.
tplData(c) == [Seed |-> hexEncodeToString(c.Seed), Target |-> c.Target]

\* ProofOfWork.ServeHTTP: the next handler on a nil checkSolution; otherwise
\* the template is loaded, a challenge issued and the template executed.
\* req.tpl tells how the template fares: "ok", "unreadable" (loadTemplate
\* fails) or "unexecutable" (Execute fails).  c is the Challenge that
\* p.mgr.NewChallenge() returns when the handler comes to call it.
ServeHTTP(mp, t, req, c) ==
  CHOOSE resp \in
    { IF chk.err = NoError
      THEN [next |-> TRUE, issued |-> FALSE, page |-> NoPage, err |-> NoError,
            checkErr |-> chk.err, m |-> chk.m]
      ELSE IF req.tpl = "unreadable"
      THEN [next |-> FALSE, issued |-> FALSE, page |-> NoPage,
            err |-> Wrap("loading template", <<"reading file">>),
            checkErr |-> chk.err, m |-> chk.m]
      ELSE IF req.tpl = "unexecutable"
      THEN [next |-> FALSE, issued |-> TRUE, page |-> NoPage,
            err |-> NewError("executing PoW template failed"),
            checkErr |-> chk.err, m |-> chk.m]
      ELSE [next |-> FALSE, issued |-> TRUE, page |-> c,
            err |-> NoError, checkErr |-> chk.err, m |-> chk.m] :
        chk \in { checkSolution(mp, t, req) } } : TRUE

\* A Manager made by NewManager or by the handler's Provision.
InitHTTP ==
  /\ config \in { [via |-> "NewManager", opts |-> o] : o \in RawOpts } \cup HandlerConfigs
  /\ opts = Construct(config)
  /\ now = 0
  /\ m = EmptyMap
  /\ verified = {}
  /\ last = NoCall
  /\ closeCh = "open"
  /\ tickerC = 0
  /\ spinning = TRUE
  /\ solve = NoSolve
  /\ calls = [i \in Callers |-> NoCheck]
  /\ l = Unlocked
  /\ spin = [pc |-> "select", now |-> 0]
  /\ solutionChecker = [i \in Callers |-> NoChecker]
  /\ solutionCheckerPool = {}
  /\ closeCalls = [j \in Closers |-> "idle"]
  /\ js = NoScript

\* A request to the handler.
ServeHTTPCall ==
  /\ config.via = "Provision"
  /\ \E c \in { tplData(NewChallenge(opts, now, Repeat(0, randomLen))) } :
     \E req \in Requests :
       \E r \in { ServeHTTP(m, now, req, c) } :
       \E seed \in { getCookieBytes(req.seedCookie) } :
       \E solution \in { getCookieBytes(req.solutionCookie) } :
          /\ m' = r.m
          /\ last' = [op |-> "ServeHTTP", req |-> req, seed |-> seed,
                      solution |-> solution, at |-> now, pre |-> m,
                      next |-> r.next, issued |-> r.issued, page |-> r.page,
                      err |-> r.err, checkErr |-> r.checkErr]
          /\ verified' = IF r.next
                         THEN verified \cup {memStoreKey(seed, solution)}
                         ELSE verified
  /\ UNCHANGED <<opts, now, solve, calls, config>>
  /\ UNCHANGED taskVars
  /\ UNCHANGED syncVars
  /\ UNCHANGED js

NextHTTP ==
  \/ ClockAdd
  \/ spinTick
  \/ NewChallengeCall
  \/ ServeHTTPCall

SpecHTTP == InitHTTP /\ [][NextHTTP]_vars

\* ------------------------------------------- the Store's lock, step by step

\* Mutant of CanLock: Lock does not wait for the readers.
CanLock_ignoreReaders(lk) == lk.w = NoHolder

\* s.l.Lock() returns when no goroutine holds the lock, s.l.RLock() when
\* none holds it for writing.
CanLock(lk) == lk.w = NoHolder /\ lk.r = {}

CanRLock(lk) == lk.w = NoHolder

Lock(lk, g) == [lk EXCEPT !.w = g]

Unlock(lk, g) == [lk EXCEPT !.w = NoHolder]

RLock(lk, g) == [lk EXCEPT !.r = @ \cup {g}]

RUnlock(lk, g) == [lk EXCEPT !.r = @ \ {g}]

\* inMemStore.spin receives a tick and reads the clock: now := Clock.Now().
spinReceive ==
  /\ spinning
  /\ spin.pc = "select"
  /\ "tick" \in spinReady(tickerC, closeCh)
  /\ tickerC' = 0
  /\ spin' = [pc |-> "Lock", now |-> now]
  /\ UNCHANGED <<opts, now, m, verified, last, closeCh, spinning, solve, calls, config>>
  /\ UNCHANGED <<l, solutionChecker, solutionCheckerPool, closeCalls, js>>

\* s.l.Lock() in spin.
spinLock ==
  /\ spin.pc = "Lock"
  /\ CanLock(l)
  /\ l' = Lock(l, SpinId)
  /\ spin' = [spin EXCEPT !.pc = "sweep"]
  /\ UNCHANGED <<opts, now, m, verified, last, solve, calls, config>>
  /\ UNCHANGED taskVars
  /\ UNCHANGED <<solutionChecker, solutionCheckerPool, closeCalls, js>>

\* The loop over s.m with the time read before the lock was taken, then
\* s.l.Unlock(); spin goes back to its select.
spinSweepUnlock ==
  /\ spin.pc = "sweep"
  /\ m' = spinSweep(m, spin.now)
  /\ l' = Unlock(l, SpinId)
  /\ spin' = [spin EXCEPT !.pc = "select"]
  /\ last' = [op |-> "sweep", now |-> spin.now, at |-> now, pre |-> m]
  /\ UNCHANGED <<opts, now, verified, solve, calls, config>>
  /\ UNCHANGED taskVars
  /\ UNCHANGED <<solutionChecker, solutionCheckerPool, closeCalls, js>>

\* spin takes the close case of its select and returns.
spinReturn ==
  /\ spin.pc = "select"
  /\ spinCloseCase

\* SetSolution and IsSolution called on the Store while spin runs: each takes
\* the lock, does its work and gives the lock back.
lockedSetSolutionCall ==
  /\ CanLock(l)
  /\ SetSolutionCall

lockedIsSolutionCall ==
  /\ CanRLock(l)
  /\ IsSolutionCall

NextSweep ==
  \/ ClockAdd
  \/ tickerFire
  \/ spinReceive
  \/ spinLock
  \/ spinSweepUnlock
  \/ lockedSetSolutionCall
  \/ lockedIsSolutionCall

SpecSweep == Init /\ [][NextSweep]_vars

\* ------------------------------------------- CheckSolution, lock and pool

\* A SolutionChecker New makes when Get finds none to reuse: the first number
\* that names no checker in the pool or in a call's hands.
poolNew(pool, held) ==
  CHOOSE x \in 1..(Cardinality(pool \cup held) + 1) :
    /\ x \notin pool \cup held
    /\ \A y \in 1..(x - 1) : y \in pool \cup held

\* Mutant of poolGet: Get leaves the checker it returns in the pool.
poolGet_leaves(pool, x) == pool

\* sync.Pool.Get returning x, and sync.Pool.Put of x.
poolGet(pool, x) == pool \ {x}

poolPut(pool, x) == pool \cup {x}

\* The checkers that CheckSolution calls hold.
heldCheckers == { solutionChecker[i] : i \in Callers } \ {NoChecker}

\* s.l.RLock() in IsSolution, called by CheckSolution.
IsSolutionRLock(i) ==
  /\ calls[i].pc = "IsSolution"
  /\ CanRLock(l)
  /\ l' = RLock(l, i)
  /\ calls' = [calls EXCEPT ![i].pc = "RLocked"]
  /\ UNCHANGED <<opts, now, m, verified, last, solve, config>>
  /\ UNCHANGED taskVars
  /\ UNCHANGED <<spin, solutionChecker, solutionCheckerPool, closeCalls, js>>

\* The map and the clock are read, the deferred s.l.RUnlock() runs, and
\* CheckSolution returns nil on a hit.
IsSolutionRead(i) ==
  /\ calls[i].pc = "RLocked"
  /\ calls' = IF IsSolution(m, now, calls[i].seed, calls[i].solution)
              THEN Return(i, NoError)
              ELSE [calls EXCEPT ![i].pc = "open"]
  /\ l' = RUnlock(l, i)
  /\ UNCHANGED <<opts, now, m, verified, last, solve, config>>
  /\ UNCHANGED taskVars
  /\ UNCHANGED <<spin, solutionChecker, solutionCheckerPool, closeCalls, js>>

\* m.solutionCheckerPool.Get().(SolutionChecker): a checker of the pool, or
\* a new one.
poolGetCall(i) ==
  /\ calls[i].pc = "Check"
  /\ \E x \in solutionCheckerPool \cup { poolNew(solutionCheckerPool, heldCheckers) } :
       /\ solutionChecker' = [solutionChecker EXCEPT ![i] = x]
       /\ solutionCheckerPool' = poolGet(solutionCheckerPool, x)
  /\ calls' = [calls EXCEPT ![i].pc = "Checking"]
  /\ UNCHANGED <<opts, now, m, verified, last, solve, config>>
  /\ UNCHANGED taskVars
  /\ UNCHANGED <<l, spin, closeCalls, js>>

\* solutionChecker.Check; a solution that fails goes to the deferred Put
\* with ErrInvalidSolution.
CheckCall(i) ==
  /\ calls[i].pc = "Checking"
  /\ calls' = IF ~Check([Seed |-> calls[i].seed, Target |-> calls[i].c.target],
                        calls[i].solution)
              THEN [calls EXCEPT ![i].pc = "Put", ![i].hashed = TRUE,
                                 ![i].err = NewError(ErrInvalidSolution)]
              ELSE [calls EXCEPT ![i].pc = "SetSolution", ![i].hashed = TRUE]
  /\ UNCHANGED <<opts, now, m, verified, last, solve, config>>
  /\ UNCHANGED taskVars
  /\ UNCHANGED syncVars
  /\ UNCHANGED js

\* s.l.Lock() in SetSolution, called by CheckSolution.
SetSolutionLock(i) ==
  /\ calls[i].pc = "SetSolution"
  /\ CanLock(l)
  /\ l' = Lock(l, i)
  /\ calls' = [calls EXCEPT ![i].pc = "Locked"]
  /\ UNCHANGED <<opts, now, m, verified, last, solve, config>>
  /\ UNCHANGED taskVars
  /\ UNCHANGED <<spin, solutionChecker, solutionCheckerPool, closeCalls, js>>

\* s.m[key] = expiresAt, then the deferred s.l.Unlock().
SetSolutionWrite(i) ==
  /\ calls[i].pc = "Locked"
  /\ LET w == SetSolution(m, calls[i].seed, calls[i].solution,
                          TimeUnix(calls[i].c.expiresAt))
     IN /\ m' = w.m
        /\ calls' = [calls EXCEPT ![i].pc = "Put",
                                  ![i].err = IF w.err # NoError
                                             THEN Wrap("marking solution as solved", w.err)
                                             ELSE NoError]
  /\ l' = Unlock(l, i)
  /\ verified' = verified \cup {memStoreKey(calls[i].seed, calls[i].solution)}
  /\ UNCHANGED <<opts, now, last, solve, config>>
  /\ UNCHANGED taskVars
  /\ UNCHANGED <<spin, solutionChecker, solutionCheckerPool, closeCalls, js>>

\* The deferred m.solutionCheckerPool.Put(solutionChecker), and the return.
poolPutCall(i) ==
  /\ calls[i].pc = "Put"
  /\ solutionCheckerPool' = poolPut(solutionCheckerPool, solutionChecker[i])
  /\ solutionChecker' = [solutionChecker EXCEPT ![i] = NoChecker]
  /\ calls' = [calls EXCEPT ![i].pc = "done"]
  /\ UNCHANGED <<opts, now, m, verified, last, solve, config>>
  /\ UNCHANGED taskVars
  /\ UNCHANGED <<l, spin, closeCalls, js>>

\* The runtime empties the pool: what sync.Pool holds may be dropped at any
\* time.
poolDrop ==
  /\ solutionCheckerPool # {}
  /\ solutionCheckerPool' = {}
  /\ UNCHANGED <<opts, now, m, verified, last, solve, calls, config>>
  /\ UNCHANGED taskVars
  /\ UNCHANGED <<l, spin, solutionChecker, closeCalls, js>>

\* The clock stands still: what the lock and the pool allow does not depend
\* on the time.
NextSync ==
  \/ tickerFire
  \/ spinReceive
  \/ spinLock
  \/ spinSweepUnlock
  \/ poolDrop
  \/ \E i \in Callers : csBegin(i)
  \/ \E i \in Callers : IsSolutionRLock(i)
  \/ \E i \in Callers : IsSolutionRead(i)
  \/ \E i \in Callers : csOpen(i)
  \/ \E i \in Callers : poolGetCall(i)
  \/ \E i \in Callers : CheckCall(i)
  \/ \E i \in Callers : SetSolutionLock(i)
  \/ \E i \in Callers : SetSolutionWrite(i)
  \/ \E i \in Callers : poolPutCall(i)

SpecSync == Init /\ [][NextSync]_vars

\* ------------------------------------------- Close, called more than once

\* Mutant of chanClose: closing a closed channel waits, as a send would.
chanClose_waits(ch) ==
  IF ch = "open" THEN [ch |-> "closed", panics |-> FALSE, waits |-> FALSE]
  ELSE [ch |-> ch, panics |-> FALSE, waits |-> TRUE]

\* close(ch): an open channel is closed; closing a closed channel panics
\* ("close of closed channel").  close never waits.
chanClose(ch) ==
  IF ch = "open" THEN [ch |-> "closed", panics |-> FALSE, waits |-> FALSE]
  ELSE [ch |-> ch, panics |-> TRUE, waits |-> FALSE]

\* Goroutine j calls inMemStore.Close.
closeBegin(j) ==
  /\ closeCalls[j] = "idle"
  /\ closeCalls' = [closeCalls EXCEPT ![j] = "called"]
  /\ UNCHANGED <<opts, now, m, verified, last, solve, calls, config>>
  /\ UNCHANGED taskVars
  /\ UNCHANGED <<l, spin, solutionChecker, solutionCheckerPool, js>>

\* close(s.closeCh); return nil.  The call panics when the channel was
\* closed before.
closeStep(j) ==
  /\ closeCalls[j] = "called"
  /\ \E r \in { chanClose(closeCh) } :
       /\ ~r.waits
       /\ closeCh' = r.ch
       /\ closeCalls' = [closeCalls EXCEPT ![j] = IF r.panics THEN "panicked"
                                                 ELSE "returned"]
  /\ last' = NoCall
  /\ UNCHANGED <<opts, now, m, verified, tickerC, spinning, solve, calls, config>>
  /\ UNCHANGED <<l, spin, solutionChecker, solutionCheckerPool, js>>

NextClose ==
  \/ tickerFire
  \/ spinReceive
  \/ spinLock
  \/ spinSweepUnlock
  \/ spinReturn
  \/ \E j \in Closers : closeBegin(j)
  \/ \E j \in Closers : closeStep(j)

SpecClose == Init /\ [][NextClose]_vars

\* A goroutine that has called Close goes on; nothing is assumed of spin or
\* of the goroutines that hold the Store's lock.
SpecCloseLive == SpecClose /\ \A j \in Closers : WF_vars(closeStep(j))

\* ------------------------------------------- the page's script (pow.js)

\* A uint32 as the template writes it into the script's string literal
\* "{{ .Target }}": its decimal digits, the first one first.
templateUint(n) ==
  LET k == IF n >= 10^9 THEN 10
           ELSE CHOOSE d \in 1..9 : n < 10^d /\ (d = 1 \/ n >= 10^(d - 1))
  IN [i \in 1..k |-> (n \div 10^(k - i)) % 10]

\* The number JavaScript makes of a string of decimal digits when the string
\* is compared with a number.
jsToNumber(str) ==
  BagCardinality([i \in { j \in 1..Len(str) : str[j] > 0 } |->
                    str[i] * 10^(Len(str) - i)])

\* fromHexString: the string cut into pieces of two characters (a last one of
\* one character when the length is odd), each read by parseInt(byte, 16).
fromHexString(hexString) ==
  [i \in 1..((Len(hexString) + 1) \div 2) |->
     IF 2 * i <= Len(hexString)
     THEN hexString[2 * i - 1] * 16 + hexString[2 * i]
     ELSE hexString[2 * i - 1]]

\* toHexString: byte.toString(16).padStart(2, '0') of every byte, joined.
toHexString(bytes) ==
  [i \in 1..(2 * Len(bytes)) |->
     IF i % 2 = 0 THEN bytes[i \div 2] % 16
     ELSE IF bytes[(i + 1) \div 2] < 16 THEN 0
     ELSE bytes[(i + 1) \div 2] \div 16]

\* What crypto.getRandomValues may leave in randBuf, the view of fullBuf
\* (seed.byteLength*2 bytes) that starts at seed.byteLength.
jsRandomValues(seed) ==
  { Repeat(k, 2 * Len(seed) - Len(seed)) : k \in SolveBytes }

\* Mutant of jsAccepts: the digest's first four bytes are read little-endian.
jsAccepts_littleEndian(seed, target, randBuf) ==
  LET digest == sha512Sum(seed \o randBuf)
  IN digest[4] * 16777216 + digest[3] * 65536 + digest[2] * 256 + digest[1]
       < jsToNumber(target)

\* digestView.getUint32(0) < target, with digest the SHA-512 of fullBuf (the
\* seed, then randBuf) and target the string of the template.
jsAccepts(seed, target, randBuf) ==
  LET digest == sha512Sum(seed \o randBuf)
  IN digest[1] * 16777216 + digest[2] * 65536 + digest[3] * 256 + digest[4]
       < jsToNumber(target)

\* A request without the cookies gets the challenge page, and its script
\* starts: seedStr, seed, target and the buffers are set up.
jsLoad ==
  /\ config.via = "Provision"
  /\ js.pc = "none"
  /\ \E random \in Randoms :
       \E c \in { NewChallenge(opts, now, random) } :
         \E data \in { tplData(c) } :
           js' = [NoScript EXCEPT !.pc = "loop",
                                  !.seedStr = data.Seed,
                                  !.target = templateUint(data.Target),
                                  !.seed = fromHexString(data.Seed),
                                  !.challenge = c]
  /\ last' = NoCall
  /\ UNCHANGED <<opts, now, m, verified, solve, calls, config>>
  /\ UNCHANGED taskVars
  /\ UNCHANGED syncVars

\* One iteration of the script's loop: fill randBuf, hash, compare; a
\* candidate below the target is written to the cookies with the seed.
jsTry ==
  /\ js.pc = "loop"
  /\ \E randBuf \in jsRandomValues(js.seed) :
       \E ok \in { jsAccepts(js.seed, js.target, randBuf) } :
         js' = [js EXCEPT !.randBuf = randBuf,
                          !.tried = TRUE,
                          !.accepted = ok,
                          !.cookies = IF ok
                                      THEN [seed |-> js.seedStr,
                                            solution |-> toHexString(randBuf)]
                                      ELSE @,
                          !.pc = IF ok THEN "reload" ELSE "loop"]
  /\ UNCHANGED <<opts, now, m, verified, last, solve, calls, config>>
  /\ UNCHANGED taskVars
  /\ UNCHANGED syncVars

\* window.location.reload(), then and later: the request carries the two
\* cookies to the handler.
jsReload ==
  /\ js.pc \in { "reload", "sent" }
  /\ \E c \in { tplData(NewChallenge(opts, now, Repeat(0, randomLen))) } :
     \E req \in { [seedCookie |-> js.cookies.seed,
                   solutionCookie |-> js.cookies.solution, tpl |-> "ok"] } :
       \E r \in { ServeHTTP(m, now, req, c) } :
       \E seed \in { getCookieBytes(req.seedCookie) } :
       \E solution \in { getCookieBytes(req.solutionCookie) } :
          /\ m' = r.m
          /\ last' = [op |-> "ServeHTTP", req |-> req, seed |-> seed,
                      solution |-> solution, at |-> now, pre |-> m,
                      next |-> r.next, issued |-> r.issued, page |-> r.page,
                      err |-> r.err, checkErr |-> r.checkErr]
          /\ verified' = IF r.next
                         THEN verified \cup {memStoreKey(seed, solution)}
                         ELSE verified
  /\ js' = [js EXCEPT !.pc = "sent"]
  /\ UNCHANGED <<opts, now, solve, calls, config>>
  /\ UNCHANGED taskVars
  /\ UNCHANGED syncVars

NextBrowser ==
  \/ ClockAdd
  \/ spinTick
  \/ jsLoad
  \/ jsTry
  \/ jsReload

SpecBrowser == InitHTTP /\ [][NextBrowser]_vars

\* ----------------------------------------------------------------- claims

\* Of the most recent call.
LastIsCheck == last.op = "CheckSolution"

LastKey == memStoreKey(last.seed, last.solution)

LastOK == last.err = NoError

LastInvalid == ErrorsIs(last.err, ErrInvalidSolution)

LastExpired == ErrorsIs(last.err, ErrExpiredSeed)

\* The Store had a live entry for the call's pair when the call was made.
LastWasLive == LastKey \in DOMAIN last.pre /\ last.pre[LastKey] > last.at

\* The seed is not of the form 0 || MAC(payload) || payload under the
\* Manager's secret.
Forged(seed) ==
  \/ Len(seed) < 1 + hSize
  \/ seed[1] # 0
  \/ SubSeq(seed, 2, 1 + hSize) # hmacMD5(Secret, SubSeq(seed, 2 + hSize, Len(seed)))

\* The seed opens under the Manager's secret, and what it opens to.
Opens(seed) == challengeParamsFromSeed(seed, Secret).err = NoError

Signed(seed) == challengeParamsFromSeed(seed, Secret).c

\* The first four bytes of the hash of seed || solution as a big-endian number.
HashValue(seed, solution) ==
  LET sum == sha512Sum(seed \o solution)
  IN sum[1] * 16777216 + sum[2] * 65536 + sum[3] * 256 + sum[4]

\* C1: CheckSolution on a malformed or forged seed, with a solution no longer
\* than the seed, fails with InvalidSolution, and every outcome of
\* CheckSolution is one of OK, InvalidSolution and ExpiredSeed.
C1_ForgedSeedIsInvalidSolution ==
  LastIsCheck =>
    /\ LastOK \/ LastInvalid \/ LastExpired
    /\ (Forged(last.seed) /\ Len(last.solution) <= Len(last.seed)) => LastInvalid

\* C2: CheckSolution returns InvalidSolution for every solution strictly
\* longer than the seed, whatever the seed and the Store are, without reading
\* or writing the Store, opening the seed or hashing.
C2_TooLongRejectedFirst ==
  (LastIsCheck /\ Len(last.solution) > Len(last.seed)) =>
    /\ LastInvalid
    /\ ~last.storeRead /\ ~last.opened /\ ~last.hashed /\ ~last.stored
    /\ m = last.pre

C2_Witness ==
  /\ LastIsCheck /\ Len(last.solution) > Len(last.seed) /\ LastInvalid
  /\ ~Forged(last.seed)
  /\ Signed(last.seed).expiresAt > Unix(last.at)
  /\ last.pre # EmptyMap

\* C3: CheckSolution returns ExpiredSeed exactly when the solution is no longer
\* than the seed, the Store has no live entry for the pair, the seed opens
\* under the Manager's secret and its expiresAt <= now in Unix seconds; the
\* hash is not looked at.
C3_ExpiredExactlyWhen ==
  LastIsCheck =>
    /\ LastExpired <=>
         /\ Len(last.solution) <= Len(last.seed)
         /\ ~LastWasLive
         /\ ~Forged(last.seed) /\ Opens(last.seed)
         /\ Signed(last.seed).expiresAt <= Unix(last.at)
    /\ LastExpired => ~last.hashed

C3_Witness ==
  /\ LastIsCheck /\ LastExpired
  /\ HashValue(last.seed, last.solution) >= Signed(last.seed).target
  /\ last.at % TicksPerSecond # 0

\* C4: for an authentic, unexpired seed with no live entry and a solution no
\* longer than the seed, CheckSolution returns OK iff the hash value is
\* strictly below the target signed into the seed, and InvalidSolution
\* otherwise.
C4_OKIffBelowSignedTarget ==
  ( /\ LastIsCheck
    /\ Len(last.solution) <= Len(last.seed)
    /\ ~LastWasLive
    /\ Opens(last.seed)
    /\ Signed(last.seed).expiresAt > Unix(last.at) ) =>
    /\ LastOK <=> HashValue(last.seed, last.solution) < Signed(last.seed).target
    /\ ~LastOK => LastInvalid

C4_Witness ==
  /\ LastIsCheck /\ LastOK /\ last.hashed
  /\ Signed(last.seed).target # opts.Target
  /\ HashValue(last.seed, last.solution) >= opts.Target

\* C5: once CheckSolution has accepted a pair, every later CheckSolution of
\* that pair before the seed's expiry returns OK from the Store's entry,
\* without opening the seed, hashing or writing.
C5_VerifiedStaysVerified ==
  ( /\ LastIsCheck
    /\ last.wasVerified
    /\ last.at < Signed(last.seed).expiresAt * TicksPerSecond ) =>
    /\ LastOK
    /\ last.storeRead /\ ~last.opened /\ ~last.hashed /\ ~last.stored
    /\ m = last.pre

C5_Witness ==
  /\ LastIsCheck /\ last.wasVerified /\ LastOK /\ ~last.opened
  /\ last.at > 0
  /\ Cardinality(verified) > 1

\* C6: at and after a seed's expiry, CheckSolution of a pair it had accepted
\* returns ExpiredSeed, whether or not the entry has been swept, and does not
\* write the pair to the Store again.
C6_VerifiedExpires ==
  ( /\ LastIsCheck
    /\ last.wasVerified
    /\ last.at >= Signed(last.seed).expiresAt * TicksPerSecond ) =>
    /\ LastExpired
    /\ ~last.stored
    /\ m = last.pre

C6_Witness ==
  /\ LastIsCheck /\ last.wasVerified /\ LastExpired
  /\ LastKey \in DOMAIN m
  /\ last.at = Signed(last.seed).expiresAt * TicksPerSecond

\* C7: a CheckSolution call that returns an error leaves the Store's map as it
\* was before the call.
C7_FailedCheckNoEffect ==
  (LastIsCheck /\ ~LastOK) => m = last.pre

C7_Witness ==
  /\ LastIsCheck /\ LastInvalid /\ last.hashed
  /\ last.pre # EmptyMap

\* C8: when CheckSolution returns OK for a pair that had no live entry, the
\* Store then holds an entry for exactly that pair whose expiry is the seed's
\* signed expiresAt as a time, so that IsSolution of the pair is true.
C8_AcceptedIsRecorded ==
  (LastIsCheck /\ LastOK /\ ~LastWasLive) =>
    /\ LastKey \in DOMAIN m
    /\ m[LastKey] = Signed(last.seed).expiresAt * TicksPerSecond
    /\ IsSolution(m, last.at, last.seed, last.solution)
    /\ \A k \in DOMAIN last.pre \ {LastKey} : k \in DOMAIN m /\ m[k] = last.pre[k]
    /\ DOMAIN m = DOMAIN last.pre \cup {LastKey}

C8_Witness ==
  /\ LastIsCheck /\ LastOK /\ ~LastWasLive
  /\ last.pre # EmptyMap
  /\ last.at % TicksPerSecond # 0

\* C9: IsSolution is true iff the Store has an entry for exactly that pair
\* whose expiry is strictly after the clock's time, and it leaves the Store
\* as it was.
C9_IsSolutionIffLive ==
  last.op = "IsSolution" =>
    /\ last.ok <=> (\E k \in DOMAIN last.pre :
                      /\ k[1] = last.seed /\ k[2] = last.solution
                      /\ last.at < last.pre[k])
    /\ m = last.pre

C9_Witness ==
  /\ last.op = "IsSolution" /\ ~last.ok
  /\ LastKey \in DOMAIN m /\ m[LastKey] = last.at
  /\ \E k \in DOMAIN m : k[1] = last.seed /\ k[2] # last.solution /\ m[k] > last.at

\* C10: SetSolution succeeds and sets the pair's expiry to the value given,
\* whatever it was before, and leaves every other entry as it was.
C10_SetSolutionOverwrites ==
  last.op = "SetSolution" =>
    /\ LastOK
    /\ DOMAIN m = DOMAIN last.pre \cup {LastKey}
    /\ m[LastKey] = last.expiresAt
    /\ \A k \in DOMAIN last.pre \ {LastKey} : m[k] = last.pre[k]

C10_Witness ==
  /\ last.op = "SetSolution"
  /\ LastKey \in DOMAIN last.pre /\ last.pre[LastKey] > last.at
  /\ last.expiresAt < last.at
  /\ DOMAIN last.pre # {LastKey}

\* C11: NewChallenge neither reads nor writes the Store, and the verdict of a
\* first-time CheckSolution is the one a Manager with the same secret and
\* clock and a Store of its own (an empty one, which has issued nothing)
\* gives for the same seed and solution.
C11_VerdictNeedsNoRecord ==
  /\ last.op = "NewChallenge" =>
       m = last.pre /\ ~last.storeRead /\ ~last.stored
  /\ (LastIsCheck /\ ~last.wasVerified) =>
       last.err = CheckSolution(EmptyMap, last.at, last.seed, last.solution).err

C11_Witness ==
  /\ LastIsCheck /\ ~last.wasVerified /\ LastOK /\ last.hashed
  /\ last.pre # EmptyMap
  /\ \E k \in DOMAIN last.pre : k[1] # last.seed /\ last.pre[k] > last.at

\* C12: when Close has returned the background task has stopped: it is not
\* running, and it makes no sweep after Close.
C12_CloseJoinsTask ==
  closeCh = "closed" => (~spinning /\ last.op # "spin")

\* C20: after Close the background task terminates in the end and stays
\* terminated, also while ticks keep arriving.
C20_TaskStopsAfterClose == (closeCh = "closed") ~> [](~spinning)

C20_Witness ==
  /\ closeCh = "closed" /\ ~spinning
  /\ tickerC = 1
  /\ m # EmptyMap

\* C13: opening a seed with the secret it was built with returns the
\* parameters it was built from (the same target, expiresAt and random bytes)
\* and no error.
C13_OpenInvertsNewSeed ==
  ( /\ last.op = "challengeParamsFromSeed"
    /\ last.damage = "none"
    /\ last.secret = last.signedWith ) =>
    /\ last.result.err = NoError
    /\ last.result.c.target = last.c.target
    /\ last.result.c.expiresAt = last.c.expiresAt
    /\ BytesOf(last.result.c.random) = BytesOf(last.c.random)

C13_Witness ==
  /\ last.op = "challengeParamsFromSeed" /\ last.damage = "none"
  /\ last.secret = last.signedWith
  /\ last.c.expiresAt < 0 /\ last.c.target = 2147483647
  /\ last.c.random = NilBytes
  /\ last.result.err = NoError

\* C14: a seed that is too short for a version and a signature, a signed seed
\* with one byte changed, and a seed signed with another secret all fail to
\* open, with the malformed-seed error; a seed opens only if its first byte
\* is 0 and its signature is that of its payload under the secret.
C14_DamagedSeedIsMalformed ==
  last.op = "challengeParamsFromSeed" =>
    /\ (last.damage # "none" \/ last.secret # last.signedWith) =>
         last.result.err = NewError(errMalformedSeed)
    /\ last.result.err = NoError =>
         /\ Len(last.seed) >= hSize + 1 /\ last.seed[1] = 0
         /\ SliceTo(SliceFrom(last.seed, 1), hSize)
              = hmacMD5(last.secret, SliceFrom(last.seed, hSize + 1))

C14_Witness ==
  /\ last.op = "challengeParamsFromSeed"
  /\ last.damage = "payload" /\ last.secret = last.signedWith
  /\ last.result.err = NewError(errMalformedSeed)

\* C15: a Challenge from NewChallenge has the Manager's configured target,
\* and its Seed opens under the Manager's secret to that target, to the Unix
\* seconds of the clock's time plus the configured lifetime, and to 8 random
\* bytes.
C15_NewChallengeSignsOpts ==
  last.op = "NewChallenge" =>
    LET p == challengeParamsFromSeed(last.challenge.Seed, Secret)
    IN /\ last.challenge.Target = opts.Target
       /\ p.err = NoError
       /\ p.c.target = opts.Target
       /\ p.c.expiresAt = (last.at + opts.ChallengeTimeout) \div TicksPerSecond
       /\ p.c.random # NilBytes /\ Len(p.c.random) = 8

C15_Witness ==
  /\ last.op = "NewChallenge"
  /\ last.at % TicksPerSecond # 0
  /\ opts.ChallengeTimeout = TicksPerSecond
  /\ challengeParamsFromSeed(last.challenge.Seed, Secret).c.random # Repeat(0, 8)

\* C16: what Solve returns has the length of the challenge's seed and passes
\* Check for the challenge, so that CheckSolution of the seed of a challenge
\* from NewChallenge and of Solve's result returns OK until the seed expires.
C16_SolveReturnsSolution ==
  solve.pc = "done" =>
    /\ Len(solve.b) = Len(solve.challenge.Seed)
    /\ HashValue(solve.challenge.Seed, solve.b) < solve.challenge.Target
    /\ ( /\ LastIsCheck
         /\ last.at < Signed(solve.challenge.Seed).expiresAt * TicksPerSecond ) =>
         LastOK

C16_Witness ==
  /\ solve.pc = "done"
  /\ LastIsCheck /\ LastOK /\ last.hashed
  /\ last.seed = solve.challenge.Seed /\ last.solution = solve.b
  /\ \E b \in SolveBuffers(solve.challenge) :
       HashValue(solve.challenge.Seed, b) >= solve.challenge.Target

\* C17: when concurrent first-time calls of CheckSolution on one valid pair
\* have all returned before the seed's expiry, all of them have returned OK
\* and the Store holds the pair with the seed's expiresAt as its expiry,
\* whichever of them wrote last.
C17_ConcurrentChecksAgree ==
  \A i \in Callers :
    ( /\ calls[i].pc = "done"
      /\ HashValue(calls[i].seed, calls[i].solution) < Signed(calls[i].seed).target
      /\ now < Signed(calls[i].seed).expiresAt * TicksPerSecond ) =>
      /\ calls[i].err = NoError
      /\ memStoreKey(calls[i].seed, calls[i].solution) \in DOMAIN m
      /\ m[memStoreKey(calls[i].seed, calls[i].solution)]
           = Signed(calls[i].seed).expiresAt * TicksPerSecond
      /\ \A k \in DOMAIN m : k[1] = calls[i].seed =>
           HashValue(k[1], k[2]) < Signed(k[1]).target

C17_Witness ==
  /\ now < MaxNow
  /\ \E i, j \in Callers :
       /\ i # j
       /\ calls[i].pc = "done" /\ calls[j].pc = "done"
       /\ calls[i].seed = calls[j].seed /\ calls[i].solution = calls[j].solution
       /\ calls[i].err = NoError /\ calls[j].err = NoError
       /\ calls[i].hashed /\ calls[j].hashed
       /\ now < Signed(calls[i].seed).expiresAt * TicksPerSecond

\* The request carries both cookies, each decodes to at least one byte, and
\* CheckSolution accepts what they decode to.
C18_Accepted ==
  /\ last.req.seedCookie # NoCookie /\ last.req.solutionCookie # NoCookie
  /\ Len(last.seed) > 0 /\ Len(last.solution) > 0
  /\ CheckSolution(last.pre, last.at, last.seed, last.solution).err = NoError

\* The response is a challenge page made from a challenge NewChallenge has
\* just issued.
C18_FreshPage ==
  /\ last.issued
  /\ last.page # NoPage
  /\ last.page.Target = opts.Target
  /\ LET p == challengeParamsFromSeed(hexDecodeString(last.page.Seed), Secret)
     IN /\ p.err = NoError
        /\ p.c.target = opts.Target
        /\ p.c.expiresAt = (last.at + opts.ChallengeTimeout) \div TicksPerSecond

\* C18 as stated: the handler invokes the next handler iff both cookies are
\* there, decode to non-empty bytes and CheckSolution accepts them; in every
\* other case the response is a fresh challenge page.
C18_NextIffAcceptedElsePage ==
  last.op = "ServeHTTP" =>
    /\ last.next <=> C18_Accepted
    /\ ~last.next => C18_FreshPage

\* C18, amended: the handler invokes the next handler iff both cookies are
\* there, decode to non-empty bytes and CheckSolution accepts them; in every
\* other case the next handler is not invoked, and the response is a fresh
\* challenge page if the template loads and executes, and an error without a
\* page if it does not.
C18_NextIffAcceptedElsePageOrError ==
  last.op = "ServeHTTP" =>
    /\ last.next <=> C18_Accepted
    /\ (~last.next /\ last.req.tpl = "ok") => (C18_FreshPage /\ last.err = NoError)
    /\ (~last.next /\ last.req.tpl # "ok") =>
         (last.page = NoPage /\ last.err # NoError)
    /\ (~last.next /\ last.req.tpl = "unreadable") => ~last.issued

C18_Witness ==
  /\ last.op = "ServeHTTP" /\ ~last.next
  /\ last.req.tpl = "ok" /\ C18_FreshPage
  /\ Len(last.seed) > 0 /\ last.req.solutionCookie = <<>>
  /\ CheckSolution(last.pre, last.at, last.seed, last.solution).err = NoError

\* The target and the lifetime (in ticks) a Manager has, given what it was
\* constructed from: what was configured, and otherwise 0x00FFFFFF from
\* NewManager, 0x000FFFFF from the handler, and 12 hours.
C19_Target ==
  IF config.opts.Target # 0 THEN config.opts.Target
  ELSE IF config.via = "Provision" THEN 1048575 ELSE 16777215

C19_Lifetime ==
  IF config.opts.ChallengeTimeout # 0 THEN config.opts.ChallengeTimeout
  ELSE 12 * 60 * 60 * TicksPerSecond

C19_OptsAsConfigured ==
  /\ opts.Target = C19_Target /\ opts.Target # 0
  /\ opts.ChallengeTimeout = C19_Lifetime
  /\ last.op = "NewChallenge" =>
       /\ last.challenge.Target = C19_Target
       /\ Signed(last.challenge.Seed).target = C19_Target
  /\ (last.op = "ServeHTTP" /\ last.page # NoPage) =>
       /\ last.page.Target = C19_Target
       /\ Signed(hexDecodeString(last.page.Seed)).target = C19_Target

\* C19: the target of every issued challenge is the configured one, or the
\* constructor's default when none is configured, and never 0; an
\* unconfigured lifetime is 12 hours; the options never change.
C19_DefaultsAndNoChange ==
  [](C19_OptsAsConfigured) /\ [][opts' = opts /\ config' = config]_vars

C19_Witness ==
  /\ last.op = "ServeHTTP" /\ last.page # NoPage
  /\ config.via = "Provision" /\ config.opts.Target = 0
  /\ last.page.Target = 1048575
  /\ now > 0

\* C24: the Store only saves work.  Every CheckSolution call returns what a
\* Manager whose Store always misses would return at that instant for the
\* same pair, and for every entry of the Store the Store's test (expiry
\* after the clock's time) and the Manager's (expiresAt above the clock's
\* Unix seconds) agree.
C24_StoreOnlySavesWork ==
  /\ LastIsCheck =>
       last.err = CheckSolution(EmptyMap, last.at, last.seed, last.solution).err
  /\ \A k \in DOMAIN m :
       IsSolution(m, now, k[1], k[2]) <=> ~SeedExpired(OpenSeed(k[1]).c, now)

C24_Witness ==
  /\ LastIsCheck /\ LastOK /\ LastWasLive
  /\ last.storeRead /\ ~last.opened
  /\ last.at % TicksPerSecond # 0
  /\ \E k \in DOMAIN m : m[k] <= now

\* C28: every entry of the Store written through CheckSolution is for a seed
\* whose MAC verifies under the Manager's secret and a solution no longer
\* than the seed, the hash value of seed || solution is below the seed's
\* signed target, and the entry's expiry is the seed's signed expiresAt as a
\* time.  A CheckSolution call answered from the Store leaves the map as it
\* was.
C28_EntriesAreVerified ==
  /\ \A k \in DOMAIN m :
       /\ ~Forged(k[1])
       /\ Opens(k[1])
       /\ Len(k[2]) <= Len(k[1])
       /\ HashValue(k[1], k[2]) < Signed(k[1]).target
       /\ m[k] = Signed(k[1]).expiresAt * TicksPerSecond
  /\ (LastIsCheck /\ LastWasLive) => m = last.pre

C28_Witness ==
  /\ Cardinality(DOMAIN m) > 1
  /\ LastIsCheck /\ LastOK /\ LastWasLive /\ ~last.stored
  /\ \E k \in DOMAIN m : m[k] <= now

\* C30: after Close the Store's methods work as before: SetSolution sets the
\* pair's entry, IsSolution tells whether the pair has an entry that expires
\* after the clock's time.  Once spin has returned no step removes an entry
\* or changes one but SetSolution of its pair.
C30_AfterClose ==
  /\ ( /\ closeCh = "closed"
       /\ last.op = "SetSolution" ) =>
       /\ last.err = NoError
       /\ LastKey \in DOMAIN m
       /\ m[LastKey] = last.expiresAt
       /\ \A k \in DOMAIN last.pre \ {LastKey} : k \in DOMAIN m /\ m[k] = last.pre[k]
  /\ ( /\ closeCh = "closed"
       /\ last.op = "IsSolution" ) =>
       /\ m = last.pre
       /\ last.ok <=> (LastKey \in DOMAIN m /\ m[LastKey] > now)

C30_NoRemovalStep ==
  ~spinning => \A k \in DOMAIN m : k \in DOMAIN m'

C30_StoreOutlivesTask == [](C30_AfterClose) /\ [][C30_NoRemovalStep]_vars

C30_Witness ==
  /\ ~spinning /\ closeCh = "closed"
  /\ tickerC = 1
  /\ last.op = "IsSolution" /\ ~last.ok
  /\ LastKey \in DOMAIN m /\ m[LastKey] <= now
  /\ \E k \in DOMAIN m : m[k] > now

\* C29: a challenge issued at clock time t with lifetime L, presented with a
\* solution at clock time t', is accepted exactly when the Unix second of t'
\* is below the Unix second of t + L, and is otherwise expired.  So it is
\* never accepted at or after t + L, and with L of a second or more it is
\* not expired at t.
C29_WholeSecondWindow ==
  /\ ( /\ solve.pc = "done"
       /\ LastIsCheck ) =>
       /\ LastOK <=> Unix(last.at) < Unix(solve.issuedAt + opts.ChallengeTimeout)
       /\ LastOK => last.at < solve.issuedAt + opts.ChallengeTimeout
       /\ ~LastOK => LastExpired
  /\ ( /\ solve.pc # "idle"
       /\ opts.ChallengeTimeout >= TicksPerSecond ) =>
       /\ Unix(solve.issuedAt) < Signed(solve.challenge.Seed).expiresAt
       /\ ~SeedExpired(Signed(solve.challenge.Seed), solve.issuedAt)

\* An expired answer less than L after the challenge was issued.
C29_Witness ==
  /\ solve.pc = "done"
  /\ LastIsCheck /\ LastExpired
  /\ last.seed = solve.challenge.Seed /\ last.solution = solve.b
  /\ solve.issuedAt % TicksPerSecond # 0
  /\ last.at < solve.issuedAt + opts.ChallengeTimeout

\* C26: UnmarshalBinary of fewer than the 12 bytes of target and expiresAt
\* fails with a decoding error; of 12 bytes or more it succeeds, the bytes
\* after the twelfth are the random field, and MarshalBinary of the result is
\* the input.  challengeParamsFromSeed of a seed whose MAC is right for a
\* payload of fewer than 12 bytes fails with that decoding error.
C26_DecodingError ==
  \/ ErrorsIs(last.err, ioEOF)
  \/ ErrorsIs(last.err, ioErrUnexpectedEOF)

C26_UnmarshalInvertsOrFails ==
  /\ ( /\ last.op = "UnmarshalBinary"
       /\ Len(last.b) < 12 ) =>
       /\ last.err # NoError
       /\ C26_DecodingError
  /\ ( /\ last.op = "UnmarshalBinary"
       /\ Len(last.b) >= 12 ) =>
       /\ last.err = NoError
       /\ BytesOf(last.c.random) = SubSeq(last.b, 13, Len(last.b))
       /\ MarshalBinary(last.c) = last.b
  /\ ( /\ last.op = "challengeParamsFromSeed"
       /\ last.seed[1] = 0
       /\ SubSeq(last.seed, 2, 1 + hSize)
            = hmacMD5(Secret, SubSeq(last.seed, 2 + hSize, Len(last.seed)))
       /\ Len(last.seed) < 1 + hSize + 12 ) =>
       /\ last.err # NoError
       /\ C26_DecodingError
       /\ last.c = ZeroParams

\* A seed with a right MAC over four bytes of payload: the target is read,
\* expiresAt meets the end of the buffer.
C26_Witness ==
  /\ last.op = "challengeParamsFromSeed"
  /\ Len(last.b) = 4
  /\ Len(last.seed) = 1 + hSize + 4
  /\ ErrorsIs(last.err, ioEOF)

\* C25: the script's candidate has the length of the seed, the seed it hashes
\* is the Challenge's seed, and it takes a candidate exactly when Check does
\* for the Challenge: the first four bytes of the hash of seed || candidate,
\* big-endian, are below the target.  What it then sends in the cookies
\* reaches CheckSolution as that seed and that candidate and is never
\* answered InvalidSolution.
C25_ScriptAgreesWithCheck ==
  /\ js.tried =>
       /\ js.seed = js.challenge.Seed
       /\ Len(js.randBuf) = Len(js.challenge.Seed)
       /\ js.accepted <=> Check(js.challenge, js.randBuf)
       /\ js.accepted <=>
            HashValue(js.challenge.Seed, js.randBuf) < js.challenge.Target
  /\ ( /\ js.pc = "sent"
       /\ last.op = "ServeHTTP" ) =>
       /\ last.seed = js.challenge.Seed
       /\ last.solution = js.randBuf
       /\ ~ErrorsIs(last.checkErr, ErrInvalidSolution)
       /\ last.checkErr = NoError \/ ErrorsIs(last.checkErr, ErrExpiredSeed)
       /\ last.next <=> last.at < Signed(last.seed).expiresAt * TicksPerSecond

C25_Witness ==
  /\ js.pc = "sent" /\ js.accepted
  /\ last.op = "ServeHTTP" /\ last.next
  /\ last.checkErr = NoError
  /\ last.pre = EmptyMap /\ m # EmptyMap
  /\ \E b \in jsRandomValues(js.seed) : ~Check(js.challenge, b)
  /\ \E b \in jsRandomValues(js.seed) : b # js.randBuf /\ Check(js.challenge, b)

\* C21: a sweep removes the entries whose expiry is at or before the time it
\* read from the clock and keeps every other entry as it is; IsSolution of
\* any pair is the same after the sweep as before it; and after the sweep no
\* entry's expiry is at or before the time the sweep read.
C21_SweepStep ==
  (spin.pc = "sweep" /\ spin'.pc = "select") =>
    /\ \A k \in DOMAIN m :
         IF m[k] <= spin.now
         THEN k \notin DOMAIN m'
         ELSE k \in DOMAIN m' /\ m'[k] = m[k]
    /\ DOMAIN m' \subseteq DOMAIN m
    /\ \A k \in DOMAIN m :
         IsSolution(m', now, k[1], k[2]) <=> IsSolution(m, now, k[1], k[2])
    /\ \A k \in DOMAIN m' : m'[k] > spin.now

C21_SweepRemovesOnlyExpired == [][C21_SweepStep]_vars

\* A sweep that took the lock after the clock had moved on, and removed one
\* entry of three while another one had expired since the clock was read.
C21_Witness ==
  /\ last.op = "sweep"
  /\ last.now < last.at
  /\ Cardinality(DOMAIN last.pre) = 3
  /\ Cardinality(DOMAIN m) = 2
  /\ \E k \in DOMAIN m : m[k] <= last.at

\* C27: every call of Close ends, by returning nil or by panicking, whatever
\* spin and the holders of the Store's lock do or fail to do; the first call
\* to close the channel returns nil, and no call touches the lock or spin.
C27_CloseStep ==
  \A j \in Closers :
    (closeCalls[j] = "called" /\ closeCalls'[j] # "called") =>
      /\ closeCalls'[j] = IF closeCh = "open" THEN "returned" ELSE "panicked"
      /\ closeCh' = "closed"
      /\ l' = l /\ spin' = spin /\ spinning' = spinning

C27_CloseNeverWaits ==
  /\ \A j \in Closers :
       (closeCalls[j] = "called") ~> (closeCalls[j] \in { "returned", "panicked" })
  /\ [][C27_CloseStep]_vars

\* A second Close has panicked while spin, not yet returned, holds the lock.
C27_Witness ==
  /\ \E j \in Closers : closeCalls[j] = "returned"
  /\ \E j \in Closers : closeCalls[j] = "panicked"
  /\ spinning /\ spin.pc = "sweep"
  /\ l.w = SpinId
  /\ tickerC = 1

\* C22: no two CheckSolution calls hold the same solutionChecker and a
\* checker a call holds is not in the pool; a call holds one from its Get to
\* its return and at no other time; and the step that ends a call that took
\* a checker puts that checker into the pool, whether the call accepts or
\* rejects.
C22_OneHolder ==
  /\ \A i \in Callers : \A j \in Callers \ {i} :
       solutionChecker[i] # NoChecker => solutionChecker[i] # solutionChecker[j]
  /\ \A i \in Callers :
       /\ solutionChecker[i] \notin solutionCheckerPool
       /\ solutionChecker[i] # NoChecker
            <=> calls[i].pc \in { "Checking", "SetSolution", "Locked", "Put" }
       /\ calls[i].pc = "done" => solutionChecker[i] = NoChecker

C22_ReturnStep ==
  \A i \in Callers :
    ( /\ calls[i].pc # "done"
      /\ calls'[i].pc = "done"
      /\ calls[i].hashed ) =>
      /\ solutionChecker[i] # NoChecker
      /\ solutionChecker[i] \in solutionCheckerPool'
      /\ solutionChecker'[i] = NoChecker

C22_CheckerHeldByOne == [](C22_OneHolder) /\ [][C22_ReturnStep]_vars

\* A rejected call has returned and its checker, taken from the pool again,
\* is in the hands of another call that holds the Store's lock.
C22_Witness ==
  \E i \in Callers : \E j \in Callers \ {i} :
    /\ calls[i].pc = "done" /\ calls[i].hashed
    /\ ErrorsIs(calls[i].err, ErrInvalidSolution)
    /\ calls[j].pc = "Locked"
    /\ solutionChecker[j] = 1
    /\ solutionCheckerPool = {}

\* C23: a goroutine holds the Store's lock only between taking it and the
\* one read, write or sweep it then does: a CheckSolution call that opens
\* the seed or hashes holds no lock.  The lock is held for writing by at most
\* one goroutine and then by none for reading, so that a sweep and a write
\* of SetSolution never fall together.  Whenever a goroutine waits for the
\* lock, a goroutine that holds it can go on and give it back.
C23_Holding ==
  /\ \A i \in Callers :
       /\ i \in l.r <=> calls[i].pc = "RLocked"
       /\ l.w = i <=> calls[i].pc = "Locked"
       /\ calls[i].pc \in { "open", "Check", "Checking", "Put" }
            => (i \notin l.r /\ l.w # i)
  /\ l.w = SpinId <=> spin.pc = "sweep"
  /\ l.r \subseteq Callers
  /\ l.w \in Callers \cup {SpinId, NoHolder}

C23_Exclusion ==
  /\ l.w # NoHolder => l.r = {}
  /\ Cardinality({ i \in Callers : calls[i].pc = "Locked" }
                   \cup (IF spin.pc = "sweep" THEN {SpinId} ELSE {})) <= 1

C23_Waiting ==
  \/ \E i \in Callers : calls[i].pc = "IsSolution" /\ ~CanRLock(l)
  \/ \E i \in Callers : calls[i].pc = "SetSolution" /\ ~CanLock(l)
  \/ spin.pc = "Lock" /\ ~CanLock(l)

C23_NoDeadlock ==
  C23_Waiting =>
    \/ ENABLED spinSweepUnlock
    \/ \E j \in Callers : ENABLED IsSolutionRead(j)
    \/ \E j \in Callers : ENABLED SetSolutionWrite(j)

C23_LockAroundMapOnly ==
  /\ C23_Holding
  /\ C23_Exclusion
  /\ C23_NoDeadlock

\* spin waits for the lock that a CheckSolution call holds for reading,
\* while another call hashes.
C23_Witness ==
  /\ spin.pc = "Lock" /\ ~CanLock(l)
  /\ \E i \in Callers : \E j \in Callers \ {i} :
       /\ calls[i].pc = "RLocked" /\ i \in l.r
       /\ calls[j].pc = "Checking"

====
